---- MODULE Spec2Model ----
(***************************************************************************)
(* A model of the PMR cache store (src/pmr_cache.py): the on-disk store    *)
(* directory, the PMRCache handle, and the workspace API working on it.    *)
(*                                                                         *)
(* Text is modelled at the level the code works on it:                     *)
(*  - an instance URL and the content of the .pmr-instance file are        *)
(*    sequences of characters, so that rstrip("/") and strip() are real    *)
(*    conversions;                                                         *)
(*  - the content of workspaces.json is a sequence of JSON tokens, written *)
(*    by json_dumps and parsed by json_loads;                              *)
(*  - a Python value is a tagged record (a str, a list, or a dict whose     *)
(*    members keep their insertion order).                                 *)
(***************************************************************************)
EXTENDS Integers, Sequences, FiniteSets, TLC

VARIABLES
    fs,      \* the store directory on disk
    cache,   \* the PMRCache handle held by the caller
    run,     \* the run of cache_workspace_information in progress
    procs,   \* the processes that upsert into the store side by side
    walk,    \* the following of links in progress while an exposure is resolved
    bound,   \* history: the instance the directory was initialised with
    pre,     \* history: fs before the last operation
    last     \* history: the last operation, its arguments and its outcome

vars == <<fs, cache, run, procs, walk, bound, pre, last>>

----------------------------------------------------------------------------
(* Bounds and input domains *)

MaxUrlLen == 3

\* the number of runs of cache_workspace_information in one behaviour
MaxRuns == 2

\* the depth of calls at which the interpreter raises RecursionError
RecursionLimit == 4

\* "a" stands for the characters of a URL other than the slash, " " for a
\* whitespace character
UrlChars == {"a", "/", " "}

RECURSIVE StringsUpTo(_)
StringsUpTo(n) ==
    IF n = 0 THEN {<<>>}
    ELSE LET S == StringsUpTo(n - 1)
         IN  S \cup {Append(s, c) : s \in {t \in S : Len(t) = n - 1}, c \in UrlChars}

\* the instance URLs a caller passes: they begin with the scheme
UrlsUpTo(n) == {u \in StringsUpTo(n) : u # <<>> /\ u[1] = "a"}

Urls == UrlsUpTo(MaxUrlLen)

StoreUrls == UrlsUpTo(2)

----------------------------------------------------------------------------
(* Python str methods used by the store *)

\* the characters str.strip() removes, as far as the model's alphabet has them
Whitespace == {" ", "\n"}

RECURSIVE rstrip(_, _)
rstrip(s, chars) ==
    IF s = <<>> \/ s[Len(s)] \notin chars THEN s
    ELSE rstrip(SubSeq(s, 1, Len(s) - 1), chars)

RECURSIVE lstrip(_, _)
lstrip(s, chars) ==
    IF s = <<>> \/ s[1] \notin chars THEN s
    ELSE lstrip(SubSeq(s, 2, Len(s)), chars)

strip(s) == lstrip(rstrip(s, Whitespace), Whitespace)

----------------------------------------------------------------------------
(* Python values: str, list and dict (members in insertion order) *)

PyStr(s) == [t |-> "str", s |-> s, m |-> <<>>]

PyDict(m) == [t |-> "dict", s |-> "", m |-> m]

EmptyDict == PyDict(<<>>)

\* a list: m holds its items
PyList(items) == [t |-> "list", s |-> "", m |-> items]

DictHas(d, k) == \E i \in 1..Len(d.m) : d.m[i][1] = k

DictGet(d, k) == d.m[CHOOSE i \in 1..Len(d.m) : d.m[i][1] = k][2]

DictGetDefault(d, k, default) == IF DictHas(d, k) THEN DictGet(d, k) ELSE default

DictSet(d, k, v) ==
    IF DictHas(d, k)
    THEN PyDict([i \in 1..Len(d.m) |-> IF d.m[i][1] = k THEN <<k, v>> ELSE d.m[i]])
    ELSE PyDict(Append(d.m, <<k, v>>))

DictDel(d, k) == PyDict(SelectSeq(d.m, LAMBDA e : e[1] # k))

DictValues(d) == [i \in 1..Len(d.m) |-> d.m[i][2]]

DictKeys(d) == [i \in 1..Len(d.m) |-> d.m[i][1]]

\* truth value of a Python value: an empty str, list or dict is falsy
Truthy(v) == IF v.t = "str" THEN v.s # "" ELSE Len(v.m) > 0

----------------------------------------------------------------------------
(* json.dumps / json.loads on Python values, as token sequences.           *)
(* Indentation and the trailing newline carry no content and are left out. *)

Tok(k) == [k |-> k, s |-> ""]

TokStr(s) == [k |-> "str", s |-> s]

\* a stretch of bytes that is not UTF-8, as a token of a file's content
BadBytes == Tok("bytes")

RECURSIVE json_dumps(_)
RECURSIVE DumpMembers(_, _)
RECURSIVE DumpItems(_, _)
json_dumps(v) ==
    IF v.t = "str" THEN <<TokStr(v.s)>>
    ELSE IF v.t = "list" THEN <<Tok("[")>> \o DumpItems(v.m, 1) \o <<Tok("]")>>
    ELSE <<Tok("{")>> \o DumpMembers(v.m, 1) \o <<Tok("}")>>

DumpItems(m, i) ==
    IF i > Len(m) THEN <<>>
    ELSE (IF i > 1 THEN <<Tok(",")>> ELSE <<>>)
         \o json_dumps(m[i])
         \o DumpItems(m, i + 1)

DumpMembers(m, i) ==
    IF i > Len(m) THEN <<>>
    ELSE (IF i > 1 THEN <<Tok(",")>> ELSE <<>>)
         \o <<TokStr(m[i][1]), Tok(":")>>
         \o json_dumps(m[i][2])
         \o DumpMembers(m, i + 1)

ParseFail == [ok |-> FALSE, v |-> EmptyDict, next |-> 0]

RECURSIVE ParseValue(_, _)
RECURSIVE ParseMembers(_, _, _)
RECURSIVE ParseItems(_, _, _)
ParseValue(toks, i) ==
    IF i > Len(toks) THEN ParseFail
    ELSE IF toks[i].k = "str" THEN [ok |-> TRUE, v |-> PyStr(toks[i].s), next |-> i + 1]
    ELSE IF toks[i].k = "["
    THEN IF i + 1 <= Len(toks) /\ toks[i + 1].k = "]"
         THEN [ok |-> TRUE, v |-> PyList(<<>>), next |-> i + 2]
         ELSE ParseItems(toks, i + 1, <<>>)
    ELSE IF toks[i].k # "{" THEN ParseFail
    ELSE IF i + 1 <= Len(toks) /\ toks[i + 1].k = "}"
         THEN [ok |-> TRUE, v |-> EmptyDict, next |-> i + 2]
         ELSE ParseMembers(toks, i + 1, EmptyDict)

ParseItems(toks, i, acc) ==
    LET r == ParseValue(toks, i)
    IN  IF ~r.ok \/ r.next > Len(toks) THEN ParseFail
        ELSE LET acc2 == Append(acc, r.v)
             IN  IF toks[r.next].k = "]"
                 THEN [ok |-> TRUE, v |-> PyList(acc2), next |-> r.next + 1]
                 ELSE IF toks[r.next].k = ","
                 THEN ParseItems(toks, r.next + 1, acc2)
                 ELSE ParseFail

ParseMembers(toks, i, acc) ==
    IF i + 1 > Len(toks) \/ toks[i].k # "str" \/ toks[i + 1].k # ":" THEN ParseFail
    ELSE LET r == ParseValue(toks, i + 2)
         IN  IF ~r.ok \/ r.next > Len(toks) THEN ParseFail
             ELSE LET acc2 == DictSet(acc, toks[i].s, r.v)
                  IN  IF toks[r.next].k = "}"
                      THEN [ok |-> TRUE, v |-> acc2, next |-> r.next + 1]
                      ELSE IF toks[r.next].k = ","
                      THEN ParseMembers(toks, r.next + 1, acc2)
                      ELSE ParseFail

\* ok = FALSE stands for json.JSONDecodeError
json_loads(toks) ==
    LET r == ParseValue(toks, 1)
    IN  IF r.ok /\ r.next = Len(toks) + 1
        THEN [ok |-> TRUE, v |-> r.v]
        ELSE [ok |-> FALSE, v |-> EmptyDict]

----------------------------------------------------------------------------
(* The Workspace dataclass *)

Workspace(href, id, title, owner, description, latest_exposure, cached_at) ==
    [href |-> href, id |-> id, title |-> title, owner |-> owner,
     description |-> description, latest_exposure |-> latest_exposure,
     cached_at |-> cached_at]

HasAttr(w, a) == a \in DOMAIN w

\* mutant: the serialised record lacks cached_at
to_dict_no_cached_at(w) ==
    PyDict(<< <<"href", w.href>>, <<"id", w.id>>, <<"title", w.title>>,
              <<"owner", w.owner>>, <<"description", w.description>>,
              <<"latest_exposure", w.latest_exposure>> >>)

to_dict(w) ==
    PyDict(<< <<"href", w.href>>, <<"id", w.id>>, <<"title", w.title>>,
              <<"owner", w.owner>>, <<"description", w.description>>,
              <<"latest_exposure", w.latest_exposure>>,
              <<"cached_at", w.cached_at>> >>)

from_dict(data) ==
    Workspace(DictGet(data, "href"), DictGet(data, "id"), DictGet(data, "title"),
              DictGet(data, "owner"),
              DictGetDefault(data, "description", PyStr("")),
              DictGetDefault(data, "latest_exposure", EmptyDict),
              DictGetDefault(data, "cached_at", PyStr("")))

\* str.lower() and the code-point order, on the titles and the citation ids the
\* model uses
lower(s) ==
    IF s = "B" THEN "b"
    ELSE IF s = "URN:MIRIAM:PUBMED:111" THEN "urn:miriam:pubmed:111"
    ELSE IF s = "Doi:x" THEN "doi:x"
    ELSE s

StrOrder == <<"", "B", "a", "b">>

StrIndex(s) == CHOOSE i \in 1..Len(StrOrder) : StrOrder[i] = s

StrLess(x, y) == StrIndex(x) < StrIndex(y)

\* the sort key of list_workspaces: w.name.lower()
NameKey(w) == lower(w["name"].s)

\* sorted(): a stable sort by NameKey
RECURSIVE InsertSorted(_, _, _)
InsertSorted(ws, w, i) ==
    IF i > Len(ws) THEN Append(ws, w)
    ELSE IF StrLess(NameKey(w), NameKey(ws[i]))
         THEN SubSeq(ws, 1, i - 1) \o <<w>> \o SubSeq(ws, i, Len(ws))
         ELSE InsertSorted(ws, w, i + 1)

RECURSIVE sorted(_)
sorted(ws) ==
    IF ws = <<>> THEN <<>>
    ELSE InsertSorted(sorted(SubSeq(ws, 1, Len(ws) - 1)), ws[Len(ws)], 1)

----------------------------------------------------------------------------
(* The workspace records the callers upsert *)

\* hrefs are taken to be names that stay below repos/ when used as a path
\* (delete_workspace joins the href to the repos directory)
Hrefs == {"h1", "h2"}

Exposure1 == PyDict(<< <<"href", PyStr("e1")>> >>)

Variants ==
    { [id |-> "i1", title |-> "B", owner |-> "o1", description |-> "",
       latest_exposure |-> EmptyDict, cached_at |-> ""],
      [id |-> "i2", title |-> "a", owner |-> "o2", description |-> "d",
       latest_exposure |-> Exposure1, cached_at |-> "t1"],
      [id |-> "i1", title |-> "b", owner |-> "o1", description |-> "d",
       latest_exposure |-> EmptyDict, cached_at |-> "t2"] }

Workspaces ==
    { Workspace(PyStr(h), PyStr(x.id), PyStr(x.title), PyStr(x.owner),
                PyStr(x.description), x.latest_exposure, PyStr(x.cached_at)) :
        h \in Hrefs, x \in Variants }

OpenWorkspaces == {w \in Workspaces : w.href.s = "h1" /\ w.id.s = "i2"}

\* names of directories the version-control collaborator may create under repos/
RepoNames == {"h1", "i1"}

\* contents of a damaged workspaces.json: a JSON text cut short, and bytes that
\* are not UTF-8
CorruptTexts == {<<Tok("{")>>, <<BadBytes>>}

----------------------------------------------------------------------------
(* The store directory *)

NoFile == [exists |-> FALSE, text |-> <<>>]

File(text) == [exists |-> TRUE, text |-> text]

\* base: the directory exists; other: it holds an entry that is not the store's
Dir(base, other) ==
    [base |-> base, other |-> other, instance_file |-> NoFile,
     workspaces_file |-> NoFile, repos |-> FALSE, repo_dirs |-> {}]

\* mutant: only the store's own entries make a directory non-empty
NonEmpty_own_entries(f) ==
    f.instance_file.exists \/ f.workspaces_file.exists \/ f.repos

\* any(self._base.iterdir())
NonEmpty(f) ==
    f.other \/ f.instance_file.exists \/ f.workspaces_file.exists \/ f.repos

\* Path.read_text(encoding="utf-8") of a file that exists
read_text(file) ==
    IF \E i \in 1..Len(file.text) : file.text[i] = BadBytes
    THEN [err |-> "UnicodeDecodeError", text |-> <<>>]
    ELSE [err |-> "", text |-> file.text]

\* FileNotFoundError and JSONDecodeError give {}; any other error is raised
_load_workspaces(f) ==
    IF ~f.workspaces_file.exists THEN [err |-> "", data |-> EmptyDict]
    ELSE LET t == read_text(f.workspaces_file)
             r == json_loads(t.text)
         IN  IF t.err # "" THEN [err |-> t.err, data |-> EmptyDict]
             ELSE [err |-> "", data |-> IF r.ok THEN r.v ELSE EmptyDict]

_save_workspaces(f, data) ==
    [f EXCEPT !.workspaces_file = File(json_dumps(data))]

Outcome(f, err, expected, found) ==
    [fs |-> f, err |-> err, expected |-> expected, found |-> found]

\* mutant: the marker is written first
_initialise_new_interrupted_marker_first(f, instance) ==
    [f EXCEPT !.base = TRUE, !.instance_file = File(instance \o <<"\n">>)]

\* lines 257-259: _initialise_new up to the creation of the repos directory
_initialise_new_interrupted(f, instance) ==
    [f EXCEPT !.base = TRUE, !.repos = TRUE]

_initialise_new(f, instance) ==
    IF f.repos
    THEN Outcome([f EXCEPT !.base = TRUE], "FileExistsError", <<>>, <<>>)
    ELSE Outcome(_save_workspaces(
                    [f EXCEPT !.base = TRUE, !.repos = TRUE,
                              !.instance_file = File(instance \o <<"\n">>)],
                    EmptyDict),
                 "", <<>>, <<>>)

\* mutant: the self-healing runs before the instance check
_open_existing_heal_first(f, instance) ==
    IF ~f.instance_file.exists
    THEN IF NonEmpty(f)
         THEN Outcome(f, "CacheNotInitialisedError", <<>>, <<>>)
         ELSE _initialise_new(f, instance)
    ELSE LET stored == strip(f.instance_file.text)
             g == [f EXCEPT !.repos = TRUE]
             h == IF g.workspaces_file.exists THEN g ELSE _save_workspaces(g, EmptyDict)
         IN  IF stored # instance
             THEN Outcome(h, "InstanceMismatchError", instance, stored)
             ELSE Outcome(h, "", <<>>, <<>>)

\* mutant: a mismatching instance is written over the marker (silent rebind)
_open_existing_rebind(f, instance) ==
    IF ~f.instance_file.exists
    THEN IF NonEmpty(f)
         THEN Outcome(f, "CacheNotInitialisedError", <<>>, <<>>)
         ELSE _initialise_new(f, instance)
    ELSE LET g == [f EXCEPT !.repos = TRUE,
                            !.instance_file = File(instance \o <<"\n">>)]
         IN  Outcome(IF g.workspaces_file.exists THEN g
                     ELSE _save_workspaces(g, EmptyDict),
                     "", <<>>, <<>>)

\* mutant: a matching store is returned as it is, nothing is ensured
_open_existing_no_heal(f, instance) ==
    IF ~f.instance_file.exists
    THEN IF NonEmpty(f)
         THEN Outcome(f, "CacheNotInitialisedError", <<>>, <<>>)
         ELSE _initialise_new(f, instance)
    ELSE LET stored == strip(f.instance_file.text)
         IN  IF stored # instance
             THEN Outcome(f, "InstanceMismatchError", instance, stored)
             ELSE Outcome(f, "", <<>>, <<>>)

_open_existing(f, instance) ==
    IF ~f.instance_file.exists
    THEN IF NonEmpty(f)
         THEN Outcome(f, "CacheNotInitialisedError", <<>>, <<>>)
         ELSE _initialise_new(f, instance)
    ELSE LET stored == strip(f.instance_file.text)
         IN  IF stored # instance
             THEN Outcome(f, "InstanceMismatchError", instance, stored)
             ELSE LET g == [f EXCEPT !.repos = TRUE]
                  IN  Outcome(IF g.workspaces_file.exists THEN g
                              ELSE _save_workspaces(g, EmptyDict),
                              "", <<>>, <<>>)

\* mutant: the requested URL is taken as given
Normalise_keep(pmr_instance) == pmr_instance

\* PMRCache.__init__ up to the dispatch: the instance the handle carries
Normalise(pmr_instance) == rstrip(pmr_instance, {"/"})

__init__(f, pmr_instance) ==
    IF f.base THEN _open_existing(f, Normalise(pmr_instance))
    ELSE _initialise_new(f, Normalise(pmr_instance))

\* ret: <<w>> for a record, <<>> for None
get_workspace(f, workspace_id) ==
    LET l == _load_workspaces(f)
        data == l.data
    IN  IF l.err # "" THEN [err |-> l.err, ret |-> <<>>]
        ELSE IF DictHas(data, workspace_id) /\ Truthy(DictGet(data, workspace_id))
        THEN [err |-> "", ret |-> <<from_dict(DictGet(data, workspace_id))>>]
        ELSE [err |-> "", ret |-> <<>>]

list_workspaces(f) ==
    LET l == _load_workspaces(f)
        values == DictValues(l.data)
        workspaces == [i \in 1..Len(values) |-> from_dict(values[i])]
    IN  IF l.err # "" THEN [err |-> l.err, ret |-> <<>>]
        ELSE IF \E i \in 1..Len(workspaces) : ~HasAttr(workspaces[i], "name")
        THEN [err |-> "AttributeError", ret |-> <<>>]
        ELSE [err |-> "", ret |-> sorted(workspaces)]

\* mutant: the save writes the new record alone
upsert_save_only_new(f, data, workspace) ==
    _save_workspaces(f, DictSet(EmptyDict, workspace.href.s, to_dict(workspace)))

\* lines 182-183: the record is set in the loaded mapping, which is written back
upsert_save(f, data, workspace) ==
    _save_workspaces(f, DictSet(data, workspace.href.s, to_dict(workspace)))

\* mutant: the record is stored under its id
upsert_workspace_by_id(f, workspace) ==
    LET l == _load_workspaces(f)
    IN  IF l.err # "" THEN [fs |-> f, err |-> l.err]
        ELSE [fs |-> _save_workspaces(f, DictSet(l.data, workspace.id.s,
                                                 to_dict(workspace))),
              err |-> ""]

upsert_workspace(f, workspace) ==
    LET l == _load_workspaces(f)
    IN  IF l.err # "" THEN [fs |-> f, err |-> l.err]
        ELSE [fs |-> upsert_save(f, l.data, workspace), err |-> ""]

\* repo_path(workspace_id): the directory repos/<workspace_id>, named by its
\* last component
repo_path(workspace_id) == workspace_id

repo_path_exists(f, workspace_id) == f.repos /\ repo_path(workspace_id) \in f.repo_dirs

\* the directories under repos/ are clones: each holds its .git directory
is_repo_cloned(f, workspace_id) == f.repos /\ repo_path(workspace_id) \in f.repo_dirs

\* mutant: the repository directory is removed whatever delete_repo says
delete_workspace_always_rmtree(f, workspace_id, delete_repo) ==
    LET l == _load_workspaces(f)
        data == l.data
    IN  IF l.err # "" THEN [fs |-> f, err |-> l.err, ret |-> FALSE]
        ELSE IF ~DictHas(data, workspace_id) THEN [fs |-> f, err |-> "", ret |-> FALSE]
        ELSE LET g == _save_workspaces(f, DictDel(data, workspace_id))
             IN  [fs |-> [g EXCEPT !.repo_dirs = @ \ {workspace_id}],
                  err |-> "", ret |-> TRUE]

delete_workspace(f, workspace_id, delete_repo) ==
    LET l == _load_workspaces(f)
        data == l.data
    IN  IF l.err # "" THEN [fs |-> f, err |-> l.err, ret |-> FALSE]
        ELSE IF ~DictHas(data, workspace_id) THEN [fs |-> f, err |-> "", ret |-> FALSE]
        ELSE LET g == _save_workspaces(f, DictDel(data, workspace_id))
             IN  [fs |-> IF delete_repo /\ repo_path_exists(g, workspace_id)
                         THEN [g EXCEPT !.repo_dirs = @ \ {repo_path(workspace_id)}]
                         ELSE g,
                  err |-> "", ret |-> TRUE]

----------------------------------------------------------------------------
(* The OmicsDI export (src/workspace_list_to_mx_fmt.py) *)

\* <<v>> for a value found, <<>> for None
RECURSIVE find_in_dict(_, _)
RECURSIVE FindFrom(_, _, _)
find_in_dict(data, target_key) ==
    IF data.t = "str" THEN <<>> ELSE FindFrom(data, target_key, 1)

FindFrom(data, target_key, i) ==
    IF i > Len(data.m) THEN <<>>
    ELSE IF data.t = "dict" /\ data.m[i][1] = target_key THEN <<data.m[i][2]>>
    ELSE LET value == IF data.t = "dict" THEN data.m[i][2] ELSE data.m[i]
             result == IF value.t = "str" THEN <<>>
                       ELSE find_in_dict(value, target_key)
         IN  IF result # <<>> THEN result
             ELSE FindFrom(data, target_key, i + 1)

OmicsDIEntry(id, name, description, url, publications) ==
    [id |-> id, name |-> name, description |-> description, url |-> url,
     publications |-> publications]

PubmedPrefix == "urn:miriam:pubmed:"

PubmedIds == {"111", "222"}

\* the citation ids upstream documents carry, and their lower-cased forms
CitationIds ==
    {PubmedPrefix \o "111", PubmedPrefix \o "222", "URN:MIRIAM:PUBMED:111", "doi:x",
     "Doi:x"}

LoweredCitationIds == {lower(c) : c \in CitationIds}

\* the orders in which a set of lower-cased citation ids may be iterated
HashOrders ==
    {o \in [1..Cardinality(LoweredCitationIds) -> LoweredCitationIds] :
        \A i, j \in DOMAIN o : i # j => o[i] # o[j]}

\* how a set of citation ids is iterated: in the order of its hash table, or,
\* when its members collide in the table, in the order they were inserted
IterationOrders == [table : HashOrders, insertion : BOOLEAN]

\* the members of a sequence, each at its first position
RECURSIVE first_occurrences(_)
first_occurrences(seq) ==
    IF seq = <<>> THEN <<>>
    ELSE <<seq[1]>> \o first_occurrences(SelectSeq(Tail(seq), LAMBDA c : c # seq[1]))

\* c.startswith('urn:miriam:pubmed:')
startswith_pubmed(c) == \E p \in PubmedIds : c = PubmedPrefix \o p

\* c.replace('urn:miriam:pubmed:', ''), for an id that starts with the prefix
replace_pubmed(c) == CHOOSE p \in PubmedIds : c = PubmedPrefix \o p

\* title.replace('&', '&amp;'), on the titles and descriptions the model uses
escape_amp(s) ==
    IF s = "a&b" THEN "a&amp;b"
    ELSE IF s = "x&y<&" THEN "x&amp;y<&amp;"
    ELSE s

\* ' ; '.join(pubs)
RECURSIVE join(_)
join(pubs) ==
    IF pubs = <<>> THEN ""
    ELSE IF Len(pubs) = 1 THEN pubs[1]
    ELSE pubs[1] \o " ; " \o join(Tail(pubs))

\* lines 99-105: the citation ids of the links of the latest exposure
RECURSIVE citations_of(_, _)
citations_of(links, i) ==
    IF i > Len(links.m) THEN <<>>
    ELSE LET citation_id == find_in_dict(links.m[i], "citation_id")
         IN  (IF citation_id # <<>> /\ Truthy(citation_id[1])
              THEN <<citation_id[1].s>> ELSE <<>>)
             \o citations_of(links, i + 1)

\* lines 94-114: the entry of one workspace; order is the iteration order of
\* the citation set
entry_of(w, order) ==
    IF Truthy(w.latest_exposure) /\ ~DictHas(w.latest_exposure, "links")
    THEN [err |-> "KeyError", entry |-> OmicsDIEntry("", "", "", "", "")]
    ELSE LET citations == IF Truthy(w.latest_exposure)
                          THEN citations_of(DictGet(w.latest_exposure, "links"), 1)
                          ELSE <<>>
             lowered == [i \in 1..Len(citations) |-> lower(citations[i])]
             citation_set == {lowered[i] : i \in 1..Len(lowered)}
             in_order == IF order.insertion THEN first_occurrences(lowered)
                         ELSE SelectSeq(order.table, LAMBDA c : c \in citation_set)
             pubs == [i \in 1..Len(in_order) |->
                         IF startswith_pubmed(in_order[i])
                         THEN replace_pubmed(in_order[i]) ELSE in_order[i]]
         IN  [err |-> "",
              entry |-> OmicsDIEntry(w.id.s, escape_amp(w.title.s),
                                     escape_amp(w.description.s), w.href.s,
                                     join(pubs))]

\* lines 129-132: the first of base.1, base.2, ... that is not a key
RECURSIVE free_id(_, _, _)
free_id(entry_descriptions, base, i) ==
    LET id == base \o "." \o ToString(i)
    IN  IF DictHas(entry_descriptions, id) THEN free_id(entry_descriptions, base, i + 1)
        ELSE id

\* lines 116-137: entry_descriptions after the entry of one workspace
reconcile(entry_descriptions, entry) ==
    IF ~DictHas(entry_descriptions, entry.id)
    THEN DictSet(entry_descriptions, entry.id, entry)
    ELSE LET old_entry == DictGet(entry_descriptions, entry.id)
         IN  IF old_entry.publications # ""
             THEN IF entry.publications = old_entry.publications THEN entry_descriptions
                  ELSE IF entry.publications = "" THEN entry_descriptions
                  ELSE \* the entry takes a free id; no statement stores it
                       LET renamed == [entry EXCEPT
                                          !.id = free_id(entry_descriptions, entry.id, 1)]
                       IN  entry_descriptions
             ELSE IF entry.publications # ""
                  THEN DictSet(entry_descriptions, entry.id, entry)
                  ELSE entry_descriptions

\* lines 91-137: the loop over the listed workspaces
RECURSIVE entries_of(_, _, _, _)
entries_of(workspaces, order, i, entry_descriptions) ==
    IF i > Len(workspaces) THEN [err |-> "", entry_descriptions |-> entry_descriptions]
    ELSE LET e == entry_of(workspaces[i], order)
         IN  IF e.err # "" THEN [err |-> e.err, entry_descriptions |-> EmptyDict]
             ELSE entries_of(workspaces, order, i + 1,
                             reconcile(entry_descriptions, e.entry))

\* lines 141-147: the fields of one rendered <entry>
render(entry) ==
    [entry_id |-> entry.id,
     entry_url |-> entry.url,
     entry_name |-> IF entry.name # "" THEN entry.name ELSE entry.id,
     entry_description |-> IF entry.description # "" THEN entry.description
                           ELSE "Exposure with the id: " \o entry.id,
     entry_publication |-> entry.publications]

\* mutant: the count is one more than the entries rendered
Document_miscounted(entries) == [entry_count |-> Len(entries) + 1, entries |-> entries]

\* the exported document: its entry count and its entries in order
Document(entries) == [entry_count |-> Len(entries), entries |-> entries]

export_of(workspaces, order) ==
    LET r == entries_of(workspaces, order, 1, EmptyDict)
        values == DictValues(r.entry_descriptions)
    IN  IF r.err # "" THEN [err |-> r.err, doc |-> Document(<<>>)]
        ELSE [err |-> "", doc |-> Document([i \in 1..Len(values) |-> render(values[i])])]

\* the listing is evaluated once and bound to l
export_to_omicsdi(f, order) ==
    CHOOSE r \in {IF l.err # "" THEN [err |-> l.err, doc |-> Document(<<>>)]
                  ELSE export_of(l.ret, order) : l \in {list_workspaces(f)}} : TRUE

\* the records the export is run on
CitationLink(c) == PyDict(<< <<"href", PyStr("l1")>>, <<"citation_id", PyStr(c)>> >>)

MetadataLink(c) ==
    PyDict(<< <<"href", PyStr("l2")>>,
              <<"model_metadata", PyDict(<< <<"citation_id", PyStr(c)>> >>)>> >>)

\* a link with a citation id of its own and another one below it
DeepLink(c, nested) ==
    PyDict(<< <<"href", PyStr("l3")>>, <<"citation_id", PyStr(c)>>,
              <<"model_metadata", PyDict(<< <<"citation_id", PyStr(nested)>> >>)>> >>)

ExposureWith(links) == PyDict(<< <<"href", PyStr("e1")>>, <<"links", PyList(links)>> >>)

ExportVariants ==
    { [title |-> "B", description |-> "",
       latest_exposure |-> ExposureWith(<<CitationLink(PubmedPrefix \o "111")>>)],
      [title |-> "a", description |-> "d", latest_exposure |-> EmptyDict],
      [title |-> "b", description |-> "d",
       latest_exposure |-> ExposureWith(<<MetadataLink(PubmedPrefix \o "222")>>)],
      [title |-> "a&b", description |-> "",
       latest_exposure |-> ExposureWith(<<CitationLink("URN:MIRIAM:PUBMED:111"),
                                          CitationLink("doi:x")>>)],
      [title |-> "a<b", description |-> "x&y<&",
       latest_exposure |-> ExposureWith(<<DeepLink(PubmedPrefix \o "111",
                                                   PubmedPrefix \o "222")>>)],
      [title |-> "c", description |-> "d",
       latest_exposure |-> ExposureWith(<<CitationLink("Doi:x")>>)],
      [title |-> "e", description |-> "",
       latest_exposure |-> ExposureWith(<<CitationLink("doi:x"),
                                          CitationLink(PubmedPrefix \o "111")>>)] }

\* the record with the single citation Doi:x has an id of its own
ExportWorkspaces ==
    { Workspace(PyStr(h), PyStr(IF x.title = "c" THEN "i2" ELSE "i1"),
                PyStr(x.title), PyStr("o1"),
                PyStr(x.description), x.latest_exposure, PyStr("t1")) :
        h \in Hrefs, x \in ExportVariants }

----------------------------------------------------------------------------
(* The crawler (src/workspaces.py).  URLs are sequences of characters here *)
(* too, also where they are the content of a Python str; a longer piece of *)
(* fixed text ("workspace", "workspace_view", a host name) is one element. *)

\* what _request_json returns: the parsed document, or None after any failure
Absent == [ok |-> FALSE, doc |-> EmptyDict]

Response(doc) == [ok |-> TRUE, doc |-> doc]

\* the outcome of a crawler function: the raised error or the value returned,
\* the URLs requested, and whether a request came back with None
Crawled(err, ret, fetched, absent) ==
    [err |-> err, ret |-> ret, fetched |-> fetched, absent |-> absent]

startswith(s, prefix) ==
    Len(prefix) <= Len(s) /\ SubSeq(s, 1, Len(prefix)) = prefix

\* mutant: the regex may match anywhere in s (re.search)
re_match_anywhere(regex, s) ==
    \E k \in 0..Len(s) :
        /\ k + Len(regex) <= Len(s)
        /\ \A i \in 1..Len(regex) : regex[i] = "." \/ regex[i] = s[k + i]

\* re.match(regex, s) for a regex of literal characters and "." (any character):
\* the match is anchored at the start of s only
re_match(regex, s) ==
    /\ Len(regex) <= Len(s)
    /\ \A i \in 1..Len(regex) : regex[i] = "." \/ regex[i] = s[i]

\* None and the empty str are falsy arguments
NoText == <<>>

\* mutant: an explicit workspace is taken whatever instance it is from
get_workspace_list_unchecked(instance, regex, workspace, all, response) ==
    IF workspace # NoText THEN Crawled("", <<workspace>>, <<>>, FALSE)
    ELSE Crawled("", <<>>, <<>>, FALSE)

get_workspace_list(instance, regex, workspace, all, response) ==
    IF workspace # NoText
    THEN IF ~startswith(workspace, instance) THEN Crawled("", <<>>, <<>>, FALSE)
         ELSE Crawled("", <<workspace>>, <<>>, FALSE)
    ELSE IF regex # NoText \/ all
    THEN LET workspace_root == instance \o <<"/", "workspace">>
         IN  IF ~response.ok
             THEN Crawled("TypeError", <<>>, <<workspace_root>>, TRUE)
             ELSE LET collection_links ==
                          DictGet(DictGet(response.doc, "collection"), "links").m
                      hrefs == [i \in 1..Len(collection_links) |->
                                   DictGet(collection_links[i], "href").s]
                  IN  Crawled("",
                              SelectSeq(hrefs, LAMBDA h :
                                            regex = NoText \/ re_match(regex, h)),
                              <<workspace_root>>, FALSE)
    ELSE Crawled("", <<>>, <<>>, FALSE)

KNOWN_RELS == {"bookmark", "section", "via"}

\* the host that list_link follows links on
ModelsHost == <<"https://models.physiomeproject.org", "/">>

\* for d in data: target[d['name']] = d['value']
RECURSIVE SetFields(_, _, _)
SetFields(target, data, i) ==
    IF i > Len(data) THEN target
    ELSE SetFields(DictSet(target, DictGet(data[i], "name").s, DictGet(data[i], "value")),
                   data, i + 1)

\* data['collection']['items'][0]
FirstItem(doc) == DictGet(DictGet(doc, "collection"), "items").m[1]

\* F applied to the value of e: e is evaluated once and bound to a local name
Apply(e, F(_)) == CHOOSE v \in {F(x) : x \in {e}} : TRUE

\* lines 118-127: the descriptor after the link is followed
RECURSIVE list_link(_, _, _)
RECURSIVE list_links(_, _, _, _)
follow_link(link_desc, href, follow, response) ==
    IF ~response.ok THEN Crawled("TypeError", link_desc, <<href>>, TRUE)
    ELSE LET collection == DictGet(response.doc, "collection")
             merged == SetFields(link_desc, DictGet(FirstItem(response.doc), "data").m, 1)
         IN  IF ~DictHas(collection, "links") THEN Crawled("", merged, <<href>>, FALSE)
             ELSE Apply(list_links(DictGet(collection, "links").m, 1, follow, response),
                        LAMBDA nested :
                            Crawled(nested.err,
                                    DictSet(merged, "links", PyList(nested.ret)),
                                    <<href>> \o nested.fetched, nested.absent))

\* lines 128-135: the descriptor with the metadata of a 'Model Metadata' section
model_metadata(link_desc, href, response) ==
    IF ~response.ok THEN Crawled("TypeError", link_desc, <<href>>, TRUE)
    ELSE Crawled("",
                 DictSet(link_desc, "model_metadata",
                         SetFields(EmptyDict,
                                   DictGet(FirstItem(response.doc), "data").m, 1)),
                 <<href>>, FALSE)

\* line 117: whether list_link follows a link
follows(rel, href, follow) ==
    follow # "" /\ rel = follow /\ startswith(href, ModelsHost)

\* follow is "" for None; every request of one call is answered by response
list_link(link, follow, response) ==
    LET href == DictGet(link, "href")
        prompt == DictGet(link, "prompt")
        rel == DictGet(link, "rel")
        link_desc == PyDict(<< <<"href", href>>, <<"prompt", prompt>>,
                               <<"relationship", rel>> >>)
        followed == follows(rel.s, href.s, follow)
        section == rel.s = "section" /\ prompt.s = "Model Metadata"
    IN  Apply(IF followed THEN follow_link(link_desc, href.s, follow, response)
              ELSE Crawled("", link_desc, <<>>, FALSE),
              LAMBDA after_follow :
                  IF after_follow.err # "" \/ ~section THEN after_follow
                  ELSE Apply(model_metadata(after_follow.ret, href.s, response),
                             LAMBDA mm :
                                 Crawled(mm.err, mm.ret,
                                         after_follow.fetched \o mm.fetched,
                                         after_follow.absent \/ mm.absent)))

list_links(links, i, follow, response) ==
    IF i > Len(links) THEN Crawled("", <<>>, <<>>, FALSE)
    ELSE Apply(list_link(links[i], follow, response),
               LAMBDA first :
                   IF first.err # ""
                   THEN Crawled(first.err, <<>>, first.fetched, first.absent)
                   ELSE Apply(list_links(links, i + 1, follow, response),
                              LAMBDA rest :
                                  Crawled(rest.err, <<first.ret>> \o rest.ret,
                                          first.fetched \o rest.fetched,
                                          first.absent \/ rest.absent)))

list_exposure(exposure_url, response) ==
    IF ~response.ok THEN Crawled("TypeError", EmptyDict, <<exposure_url>>, TRUE)
    ELSE LET exposure == SetFields(PyDict(<< <<"href", PyStr(exposure_url)>> >>),
                                   DictGet(FirstItem(response.doc), "data").m, 1)
             exposure_links == DictGet(DictGet(response.doc, "collection"), "links").m
         IN  Apply(list_links(exposure_links, 1, "bookmark", response),
                   LAMBDA links :
                       Crawled(links.err, DictSet(exposure, "links", PyList(links.ret)),
                               <<exposure_url>> \o links.fetched, links.absent))

\* lines 167-174: the links of the workspace item, from link i on
RECURSIVE resolve_links(_, _, _, _)
resolve_links(workspace, links, i, exposure) ==
    IF i > Len(links) THEN Crawled("", workspace, <<>>, FALSE)
    ELSE IF DictGet(links[i], "prompt").s # "Latest Exposure"
    THEN resolve_links(workspace, links, i + 1, exposure)
    ELSE Apply(list_exposure(DictGet(links[i], "href").s, exposure),
               LAMBDA e :
                   IF e.err # "" THEN Crawled(e.err, workspace, e.fetched, e.absent)
                   ELSE Apply(resolve_links(DictSet(workspace, "latest-exposure", e.ret),
                                            links, i + 1, exposure),
                              LAMBDA rest :
                                  Crawled(rest.err, rest.ret, e.fetched \o rest.fetched,
                                          e.absent \/ rest.absent)))

\* mutant: the record is built without the latest exposure
WorkspaceOf_no_exposure(workspace, now) ==
    Workspace(DictGet(workspace, "href"), DictGet(workspace, "id"),
              DictGet(workspace, "title"), DictGet(workspace, "owner"),
              DictGetDefault(workspace, "description", PyStr("")),
              EmptyDict, PyStr(now))

\* lines 176-183: the record built from the assembled fields
WorkspaceOf(workspace, now) ==
    Workspace(DictGet(workspace, "href"), DictGet(workspace, "id"),
              DictGet(workspace, "title"), DictGet(workspace, "owner"),
              DictGetDefault(workspace, "description", PyStr("")),
              DictGetDefault(workspace, "latest-exposure", EmptyDict),
              PyStr(now))

\* view answers the request for the workspace_view document, exposure every
\* request made while the latest exposure is resolved; now is the time of the
\* call.  ret is <<record>>, or <<>> when the call raises.
create_workspace(workspace_url, view, exposure, now) ==
    LET url == workspace_url \o <<"/", "workspace_view">>
        workspace_info == FirstItem(view.doc)
        with_data == SetFields(PyDict(<< <<"href", DictGet(workspace_info, "href")>> >>),
                               DictGet(workspace_info, "data").m, 1)
    IN  IF ~view.ok THEN Crawled("TypeError", <<>>, <<url>>, TRUE)
        ELSE Apply(IF DictHas(workspace_info, "links")
                   THEN resolve_links(with_data, DictGet(workspace_info, "links").m,
                                      1, exposure)
                   ELSE Crawled("", with_data, <<>>, FALSE),
                   LAMBDA resolved :
                       Crawled(resolved.err,
                               IF resolved.err # "" THEN <<>>
                               ELSE <<WorkspaceOf(resolved.ret, now)>>,
                               <<url>> \o resolved.fetched, resolved.absent))

\* lines 206-212: the body of the loop of cache_workspace_information for one
\* selected URL
Populated(f, err, fetched, absent, ws) ==
    [fs |-> f, err |-> err, fetched |-> fetched, absent |-> absent, ws |-> ws]

\* mutant: the fetched record is not stored
populate_one_no_upsert(f, w, force_refresh, view, exposure, now) ==
    Apply(create_workspace(w, view, exposure, now),
          LAMBDA created :
              Populated(f, created.err, created.fetched, created.absent, created.ret))

\* mutant: a cached workspace is fetched and stored again
populate_one_always_fetch(f, w, force_refresh, view, exposure, now) ==
    Apply(create_workspace(w, view, exposure, now),
          LAMBDA created :
              IF created.err # ""
              THEN Populated(f, created.err, created.fetched, created.absent, <<>>)
              ELSE Populated(upsert_workspace(f, created.ret[1]).fs, "",
                             created.fetched, created.absent, created.ret))

populate_one(f, w, force_refresh, view, exposure, now) ==
    Apply(get_workspace(f, w),
          LAMBDA workspace :
              IF workspace.err # "" THEN Populated(f, workspace.err, <<>>, FALSE, <<>>)
              ELSE IF workspace.ret # <<>> /\ ~force_refresh
              THEN Populated(f, "", <<>>, FALSE, <<>>)
              ELSE Apply(create_workspace(w, view, exposure, now),
                         LAMBDA created :
                             IF created.err # ""
                             THEN Populated(f, created.err, created.fetched,
                                            created.absent, <<>>)
                             ELSE Apply(upsert_workspace(f, created.ret[1]),
                                        LAMBDA upserted :
                                            Populated(upserted.fs, upserted.err,
                                                      created.fetched, created.absent,
                                                      created.ret))))

----------------------------------------------------------------------------
(* The commands (src/pmr-utils.py) *)

\* the errors of PMRCache(...) that a command turns into exit status 1
CaughtErrors == {"InstanceMismatchError", "CacheNotInitialisedError"}

\* the outcome of a command up to its pipeline: status is <<1>> when the open
\* failed with a caught error, err an error that leaves the command, sel the
\* selection of the population and doc the exported document
Command(f, open_err, err, status, opened, sel, doc) ==
    [fs |-> f, open_err |-> open_err, err |-> err, status |-> status,
     opened |-> opened, sel |-> sel, doc |-> doc]

NoSelection == Crawled("", <<>>, <<>>, FALSE)

\* mutant: the pipeline runs whatever the open raised
cmd_cache_workspace_information_unguarded(f, pmr_instance, regex, workspace, all, response) ==
    Apply(__init__(f, pmr_instance),
          LAMBDA opened :
              Command(opened.fs, opened.err, "", <<>>, TRUE,
                      get_workspace_list(Normalise(pmr_instance), regex, workspace, all,
                                         response),
                      Document(<<>>)))

\* lines 203-212: the open, and the selection that cache_workspace_information
\* starts with
cmd_cache_workspace_information(f, pmr_instance, regex, workspace, all, response) ==
    Apply(__init__(f, pmr_instance),
          LAMBDA opened :
              IF opened.err \in CaughtErrors
              THEN Command(opened.fs, opened.err, "", <<1>>, FALSE, NoSelection,
                           Document(<<>>))
              ELSE IF opened.err # ""
              THEN Command(opened.fs, opened.err, opened.err, <<>>, FALSE, NoSelection,
                           Document(<<>>))
              ELSE Command(opened.fs, "", "", <<>>, TRUE,
                           get_workspace_list(Normalise(pmr_instance), regex, workspace,
                                              all, response),
                           Document(<<>>)))

cmd_omicsdi_export(f, pmr_instance, order) ==
    Apply(__init__(f, pmr_instance),
          LAMBDA opened :
              IF opened.err \in CaughtErrors
              THEN Command(opened.fs, opened.err, "", <<1>>, FALSE, NoSelection,
                           Document(<<>>))
              ELSE IF opened.err # ""
              THEN Command(opened.fs, opened.err, opened.err, <<>>, FALSE, NoSelection,
                           Document(<<>>))
              ELSE Apply(export_to_omicsdi(opened.fs, order),
                         LAMBDA mx_xml :
                             Command(opened.fs, "", mx_xml.err,
                                     IF mx_xml.err = "" THEN <<0>> ELSE <<>>,
                                     TRUE, NoSelection, mx_xml.doc)))

----------------------------------------------------------------------------
(* The upstream documents and the arguments of the crawl *)

CrawlUrl == <<"a">>

\* the instance URLs of the commands: the one of the crawl, the same with a
\* trailing slash, and another instance
CommandInstances == {CrawlUrl, <<"a", "/">>, <<"b">>}

WorkspaceW == <<"a", "/", "w">>

WorkspaceX == <<"a", "/", "x">>

\* a workspace of another instance
WorkspaceOther == <<"b", "/", "w">>

SelectInstances == {<<"a">>, WorkspaceW}

SelectWorkspaces == {NoText, WorkspaceW, WorkspaceX, WorkspaceOther}

Regexes == {NoText, <<"a", "/", "w">>, <<"/", "w">>, <<".", "/", "x">>}

PopulateWorkspaces == {NoText, WorkspaceW, WorkspaceOther}

PopulateRegexes == {NoText, <<".", "/", "x">>}

HrefLink(href) == PyDict(<< <<"href", PyStr(href)>> >>)

CollectionDoc(hrefs) ==
    PyDict(<< <<"collection",
               PyDict(<< <<"links",
                          PyList([i \in 1..Len(hrefs) |-> HrefLink(hrefs[i])])>> >>)>> >>)

CollectionResponses ==
    {Absent, Response(CollectionDoc(<<>>)),
     Response(CollectionDoc(<<WorkspaceX, WorkspaceW>>)),
     Response(CollectionDoc(<<WorkspaceW, WorkspaceOther>>))}

DataField(name, value) == PyDict(<< <<"name", PyStr(name)>>, <<"value", PyStr(value)>> >>)

PromptLink(href, prompt, rel) ==
    PyDict(<< <<"href", PyStr(href)>>, <<"prompt", PyStr(prompt)>>,
              <<"rel", PyStr(rel)>> >>)

ItemDoc(item, links) ==
    PyDict(<< <<"collection",
               PyDict(<< <<"items", PyList(<<item>>)>>, <<"links", PyList(links)>> >>)>> >>)

\* the workspace_view document of workspace w: with the required fields only,
\* the same with the href of the item written with a trailing slash, or with a
\* description, a latest exposure and a link of another kind
ViewKinds == {"absent", "plain", "moved", "rich"}

ViewResponse(kind, w) ==
    LET required == <<DataField("id", w[Len(w)]), DataField("title", "T"),
                      DataField("owner", "o1")>>
    IN  IF kind = "absent" THEN Absent
        ELSE IF kind = "plain"
        THEN Response(ItemDoc(PyDict(<< <<"href", PyStr(w)>>,
                                        <<"data", PyList(required)>> >>), <<>>))
        ELSE IF kind = "moved"
        THEN Response(ItemDoc(PyDict(<< <<"href", PyStr(w \o <<"/">>)>>,
                                        <<"data", PyList(required)>> >>), <<>>))
        ELSE Response(ItemDoc(
                 PyDict(<< <<"href", PyStr(w)>>,
                           <<"data", PyList(Append(required,
                                                   DataField("description", "d")))>>,
                           <<"links",
                             PyList(<<PromptLink(<<"b", "/", "s">>, "Something Else",
                                                 "section"),
                                      PromptLink(w \o <<"/", "e">>, "Latest Exposure",
                                                 "bookmark")>>)>> >>),
                 <<>>))

ExposureDoc ==
    ItemDoc(PyDict(<< <<"href", PyStr(<<"a", "/", "e">>)>>,
                      <<"data", PyList(<<DataField("title", "E")>>)>> >>),
            <<PromptLink(<<"b", "/", "s">>, "Source", "via"),
              PromptLink(<<"b", "/", "m">>, "Model Metadata", "section")>>)

ExposureResponses == {Absent, Response(ExposureDoc)}

\* the links that list_link classifies: on the host of one of two instances,
\* with the documents that answer a request for them
LinkInstances ==
    {<<"https://models.physiomeproject.org">>, <<"https://staging.physiomeproject.org">>}

LinkRels == {"bookmark", "section", "via"}

LinkPrompts == {"Documentation", "Model Metadata"}

Links ==
    {PromptLink(host \o <<"/", "e">>, prompt, rel) :
        host \in LinkInstances, prompt \in LinkPrompts, rel \in LinkRels}

\* a document with a first item and no links
BareDoc ==
    PyDict(<< <<"collection",
               PyDict(<< <<"items",
                          PyList(<<PyDict(<< <<"data",
                                     PyList(<<DataField("title", "E")>>)>> >>)>>)>> >>)>> >>)

LinkResponses == {Absent, Response(ExposureDoc), Response(BareDoc)}

\* the documents that a followed link can lead to, all on the host that
\* list_link follows links on, and the links a document can list: bookmarks to
\* these documents, a bookmark on another host and a link of another kind
Docs == {"e", "a", "b"}

DocUrl(d) == ModelsHost \o <<d>>

BookmarkTo(d) == PromptLink(DocUrl(d), "Documentation", "bookmark")

DocLinks ==
    {<<>>, <<BookmarkTo("a")>>, <<BookmarkTo("b")>>, <<BookmarkTo("e")>>,
     <<BookmarkTo("a"), BookmarkTo("b")>>,
     <<PromptLink(<<"https://staging.physiomeproject.org", "/", "e">>,
                  "Documentation", "bookmark"),
       PromptLink(DocUrl("a"), "Source", "via")>>}

Upstreams == [Docs -> DocLinks]

\* the workspaces of the concurrent upserts
RaceWorkspaces == Workspaces

\* the collection documents of the populate runs
PopulateResponses ==
    {Absent, Response(CollectionDoc(<<>>)),
     Response(CollectionDoc(<<WorkspaceX, WorkspaceW>>))}

\* the arguments and the documents of the commands
CommandViewKinds == {"absent", "plain"}

CommandWorkspaces == {NoText, WorkspaceW}

CommandResponses == {Absent, Response(CollectionDoc(<<WorkspaceW, WorkspaceOther>>))}

----------------------------------------------------------------------------
(* State machine *)

Closed == [open |-> FALSE, instance |-> <<>>]

Handle(instance) == [open |-> TRUE, instance |-> instance]

Unbound == [set |-> FALSE, instance |-> <<>>]

Call(op) ==
    [op |-> op, url |-> <<>>, href |-> "", ws |-> <<>>, delete_repo |-> FALSE,
     err |-> "", expected |-> <<>>, found |-> <<>>, ret |-> <<>>, flag |-> FALSE,
     doc |-> Document(<<>>), instance |-> <<>>, regex |-> <<>>, all |-> FALSE,
     force_refresh |-> FALSE, response |-> Absent, fetched |-> <<>>,
     absent |-> FALSE, status |-> <<>>, open_err |-> "", follow |-> "",
     exposure |-> Absent]

\* no run of cache_workspace_information yet; handled are the URLs the loop has
\* taken up so far, ret is <<status>> once the run returned
Idle ==
    [pc |-> "idle", count |-> 0, force_refresh |-> FALSE, workspaces |-> <<>>,
     i |-> 0, handled |-> <<>>, err |-> "", ret |-> <<>>]

\* the two processes of a concurrent upsert
Procs == {1, 2}

\* a process before its upsert_workspace; once it runs, data is the mapping it
\* loaded, ws is <<workspace>>, and overlapped tells whether another process
\* was between its load and its save at some moment of this one's
NotStarted ==
    [pc |-> "idle", data |-> EmptyDict, ws |-> <<>>, err |-> "", overlapped |-> FALSE]

\* no exposure is being resolved; once one is, upstream gives the links of
\* every document, stack the calls of list_exposure and list_link that have not
\* returned (the document each one requested and the link it is at), fetched
\* the requests so far
NoWalk ==
    [pc |-> "idle", upstream |-> [d \in Docs |-> <<>>], stack |-> <<>>,
     fetched |-> <<>>, err |-> ""]

Init ==
    /\ fs \in {Dir(FALSE, FALSE), Dir(TRUE, FALSE), Dir(TRUE, TRUE)}
    /\ cache = Closed
    /\ run = Idle
    /\ procs = [p \in Procs |-> NotStarted]
    /\ walk = NoWalk
    /\ bound = Unbound
    /\ pre = fs
    /\ last = Call("none")

\* cache = PMRCache(base_folder, pmr_instance); a raise leaves the caller's handle
Open(pmr_instance) ==
    LET out == __init__(fs, pmr_instance)
    IN  /\ fs' = out.fs
        /\ cache' = IF out.err = "" THEN Handle(Normalise(pmr_instance)) ELSE cache
        /\ bound' = IF ~fs.instance_file.exists /\ out.fs.instance_file.exists
                    THEN [set |-> TRUE, instance |-> Normalise(pmr_instance)]
                    ELSE bound
        /\ pre' = fs
        /\ UNCHANGED <<procs, walk>>
        /\ last' = [Call("open") EXCEPT !.url = pmr_instance, !.err = out.err,
                                        !.expected = out.expected, !.found = out.found]
        /\ UNCHANGED run

Get(workspace_id) ==
    /\ cache.open
    /\ LET r == get_workspace(fs, workspace_id)
       IN  last' = [Call("get") EXCEPT !.href = workspace_id, !.err = r.err,
                                       !.ret = r.ret]
    /\ pre' = fs
    /\ UNCHANGED <<procs, walk>>
    /\ UNCHANGED <<fs, cache, run, bound>>

List ==
    /\ cache.open
    /\ LET r == list_workspaces(fs)
       IN  last' = [Call("list") EXCEPT !.err = r.err, !.ret = r.ret]
    /\ pre' = fs
    /\ UNCHANGED <<procs, walk>>
    /\ UNCHANGED <<fs, cache, run, bound>>

Upsert(workspace) ==
    /\ cache.open
    /\ LET r == upsert_workspace(fs, workspace)
       IN  /\ fs' = r.fs
           /\ last' = [Call("upsert") EXCEPT !.href = workspace.href.s,
                                             !.ws = <<workspace>>, !.err = r.err]
    /\ pre' = fs
    /\ UNCHANGED <<procs, walk>>
    /\ UNCHANGED <<cache, run, bound>>

Delete(workspace_id, delete_repo) ==
    /\ cache.open
    /\ LET r == delete_workspace(fs, workspace_id, delete_repo)
       IN  /\ fs' = r.fs
           /\ last' = [Call("delete") EXCEPT !.href = workspace_id,
                                             !.delete_repo = delete_repo,
                                             !.err = r.err, !.flag = r.ret]
    /\ pre' = fs
    /\ UNCHANGED <<procs, walk>>
    /\ UNCHANGED <<cache, run, bound>>

\* someone deletes the repos directory by hand
ManualDeleteRepos ==
    /\ fs.repos
    /\ fs' = [fs EXCEPT !.repos = FALSE, !.repo_dirs = {}]
    /\ pre' = fs
    /\ UNCHANGED <<procs, walk>>
    /\ last' = Call("manual")
    /\ UNCHANGED <<cache, run, bound>>

\* someone deletes workspaces.json by hand
ManualDeleteWorkspacesFile ==
    /\ fs.workspaces_file.exists
    /\ fs' = [fs EXCEPT !.workspaces_file = NoFile]
    /\ pre' = fs
    /\ UNCHANGED <<procs, walk>>
    /\ last' = Call("manual")
    /\ UNCHANGED <<cache, run, bound>>

\* workspaces.json is damaged by hand or by an interrupted write
ManualCorruptWorkspacesFile(text) ==
    /\ fs.workspaces_file.exists
    /\ fs.workspaces_file.text # text
    /\ fs' = [fs EXCEPT !.workspaces_file = File(text)]
    /\ pre' = fs
    /\ UNCHANGED <<procs, walk>>
    /\ last' = Call("manual")
    /\ UNCHANGED <<cache, run, bound>>

\* the version-control collaborator clones a repository under repos/
CloneRepo(name) ==
    /\ fs.repos
    /\ name \notin fs.repo_dirs
    /\ fs' = [fs EXCEPT !.repo_dirs = @ \cup {name}]
    /\ pre' = fs
    /\ UNCHANGED <<procs, walk>>
    /\ last' = Call("manual")
    /\ UNCHANGED <<cache, run, bound>>

\* export_to_omicsdi(cache) on an open store
Export(order) ==
    /\ cache.open
    /\ \E r \in {export_to_omicsdi(fs, order)} :
           last' = [Call("export") EXCEPT !.err = r.err, !.doc = r.doc]
    /\ pre' = fs
    /\ UNCHANGED <<procs, walk>>
    /\ UNCHANGED <<fs, cache, run, bound>>

\* get_workspace_list(instance, regex, workspace, all) on its own
Select(instance, regex, workspace, all, response) ==
    /\ LET sel == get_workspace_list(instance, regex, workspace, all, response)
       IN  last' = [Call("select") EXCEPT !.instance = instance, !.regex = regex,
                                          !.url = workspace, !.all = all,
                                          !.response = response, !.err = sel.err,
                                          !.ret = sel.ret, !.fetched = sel.fetched,
                                          !.absent = sel.absent]
    /\ pre' = fs
    /\ UNCHANGED <<procs, walk>>
    /\ UNCHANGED <<fs, cache, run, bound>>

\* the time of a run, as the text that cached_at gets
Now == "t" \o ToString(run.count)

\* list_link(link, follow) for a link met in a crawl of instance
ListLink(instance, link, follow, response) ==
    /\ \E r \in {list_link(link, follow, response)} :
           last' = [Call("list_link") EXCEPT !.instance = instance, !.ws = <<link>>,
                                             !.follow = follow, !.response = response,
                                             !.err = r.err, !.ret = <<r.ret>>,
                                             !.fetched = r.fetched,
                                             !.absent = r.absent]
    /\ pre' = fs
    /\ UNCHANGED <<procs, walk>>
    /\ UNCHANGED <<fs, cache, run, bound>>

\* the run that cache_workspace_information starts from its selection
Started(sel, force_refresh) ==
    LET started == [pc |-> "loop", count |-> run.count + 1,
                    force_refresh |-> force_refresh, workspaces |-> sel.ret,
                    i |-> 1, handled |-> <<>>, err |-> sel.err, ret |-> <<>>]
    IN  IF sel.err # "" THEN [started EXCEPT !.pc = "done"]
        ELSE IF Len(sel.ret) > 0 THEN started
        ELSE [started EXCEPT !.pc = "done", !.ret = <<-1>>]

\* cache_workspace_information up to its loop: the selection
PopulateSelect(regex, workspace, all, force_refresh, response) ==
    /\ cache.open
    /\ run.pc # "loop"
    /\ run.count < MaxRuns
    /\ \E sel \in {get_workspace_list(cache.instance, regex, workspace, all, response)} :
       LET next == Started(sel, force_refresh)
       IN  /\ run' = next
           /\ last' = [Call("populate") EXCEPT !.instance = cache.instance,
                                               !.regex = regex, !.url = workspace,
                                               !.all = all,
                                               !.force_refresh = force_refresh,
                                               !.response = response, !.err = sel.err,
                                               !.ret = sel.ret, !.fetched = sel.fetched,
                                               !.absent = sel.absent,
                                               !.status = next.ret]
    /\ pre' = fs
    /\ UNCHANGED <<procs, walk>>
    /\ UNCHANGED <<fs, cache, bound>>

\* one turn of the loop of cache_workspace_information, and its return after
\* the last selected URL
PopulateStep(kind, exposure) ==
    /\ run.pc = "loop"
    /\ \E p \in {populate_one(fs, run.workspaces[run.i], run.force_refresh,
                              ViewResponse(kind, run.workspaces[run.i]),
                              exposure, Now)} :
       LET w == run.workspaces[run.i]
           taken == [run EXCEPT !.handled = Append(@, w)]
           next == IF p.err # "" THEN [taken EXCEPT !.pc = "done", !.err = p.err]
                   ELSE IF run.i = Len(run.workspaces)
                   THEN [taken EXCEPT !.pc = "done", !.i = @ + 1, !.ret = <<0>>]
                   ELSE [taken EXCEPT !.i = @ + 1]
       IN  /\ fs' = p.fs
           /\ run' = next
           /\ last' = [Call("populate_step") EXCEPT !.url = w,
                                                    !.force_refresh = run.force_refresh,
                                                    !.response =
                                                        IF p.fetched # <<>>
                                                        THEN ViewResponse(kind, w)
                                                        ELSE Absent,
                                                    !.exposure =
                                                        IF Len(p.fetched) > 1
                                                        THEN exposure ELSE Absent,
                                                    !.ws = p.ws, !.err = p.err,
                                                    !.fetched = p.fetched,
                                                    !.absent = p.absent,
                                                    !.status = next.ret]
    /\ pre' = fs
    /\ UNCHANGED <<procs, walk>>
    /\ UNCHANGED <<cache, bound>>

\* the cache-workspace command up to the loop of the population; PopulateStep
\* goes on from there
CmdCacheWorkspaceInformation(pmr_instance, regex, workspace, all, force_refresh, response) ==
    /\ run.pc # "loop"
    /\ run.count < MaxRuns
    /\ \E c \in {cmd_cache_workspace_information(fs, pmr_instance, regex, workspace,
                                                 all, response)} :
       LET next == IF c.opened THEN Started(c.sel, force_refresh) ELSE run
       IN  /\ fs' = c.fs
           /\ cache' = IF c.opened THEN Handle(Normalise(pmr_instance)) ELSE cache
           /\ bound' = IF ~fs.instance_file.exists /\ c.fs.instance_file.exists
                       THEN [set |-> TRUE, instance |-> Normalise(pmr_instance)]
                       ELSE bound
           /\ run' = next
           /\ last' = [Call("cmd_cache") EXCEPT
                           !.instance = pmr_instance, !.regex = regex,
                           !.url = workspace, !.all = all,
                           !.force_refresh = force_refresh, !.response = response,
                           !.open_err = c.open_err,
                           !.err = IF c.opened THEN c.sel.err ELSE c.err,
                           !.ret = c.sel.ret, !.fetched = c.sel.fetched,
                           !.absent = c.sel.absent,
                           !.status = IF c.opened THEN next.ret ELSE c.status]
    /\ pre' = fs
    /\ UNCHANGED <<procs, walk>>

\* the omicsdi-export command
CmdOmicsdiExport(pmr_instance, order) ==
    /\ run.pc # "loop"
    /\ \E c \in {cmd_omicsdi_export(fs, pmr_instance, order)} :
           /\ fs' = c.fs
           /\ cache' = IF c.opened THEN Handle(Normalise(pmr_instance)) ELSE cache
           /\ bound' = IF ~fs.instance_file.exists /\ c.fs.instance_file.exists
                       THEN [set |-> TRUE, instance |-> Normalise(pmr_instance)]
                       ELSE bound
           /\ last' = [Call("cmd_export") EXCEPT
                           !.instance = pmr_instance, !.open_err = c.open_err,
                           !.err = c.err, !.doc = c.doc, !.status = c.status]
    /\ pre' = fs
    /\ UNCHANGED <<procs, walk>>
    /\ UNCHANGED run

\* PMRCache(base_folder, pmr_instance) on a path that is initialised, killed
\* after the repos directory is created: the constructor never returns
OpenInterrupted(pmr_instance) ==
    /\ ~fs.repos
    /\ ~fs.base \/ (~fs.instance_file.exists /\ ~NonEmpty(fs))
    /\ fs' = _initialise_new_interrupted(fs, Normalise(pmr_instance))
    /\ pre' = fs
    /\ last' = [Call("open_interrupted") EXCEPT !.url = pmr_instance]
    /\ UNCHANGED <<cache, run, procs, walk, bound>>

\* upsert_workspace of process p, line 180: the mapping is loaded
UpsertLoad(p, workspace) ==
    /\ cache.open
    /\ procs[p].pc = "idle"
    /\ LET l == _load_workspaces(fs)
           others == \E q \in Procs \ {p} : procs[q].pc = "loaded"
       IN  procs' = [q \in Procs |->
                       IF q = p
                       THEN IF l.err # ""
                            THEN [NotStarted EXCEPT !.pc = "done", !.err = l.err,
                                                    !.ws = <<workspace>>]
                            ELSE [NotStarted EXCEPT !.pc = "loaded", !.data = l.data,
                                                    !.ws = <<workspace>>,
                                                    !.overlapped = others]
                       ELSE IF procs[q].pc = "loaded" /\ l.err = ""
                       THEN [procs[q] EXCEPT !.overlapped = TRUE]
                       ELSE procs[q]]
    /\ pre' = fs
    /\ last' = [Call("upsert_load") EXCEPT !.href = workspace.href.s,
                                          !.ws = <<workspace>>]
    /\ UNCHANGED <<fs, cache, run, walk, bound>>

\* upsert_workspace of process p, lines 181-183: the record is set in the
\* mapping that p loaded, and the mapping is written
UpsertSave(p) ==
    /\ procs[p].pc = "loaded"
    /\ fs' = upsert_save(fs, procs[p].data, procs[p].ws[1])
    /\ procs' = [procs EXCEPT ![p].pc = "done"]
    /\ pre' = fs
    /\ last' = [Call("upsert_save") EXCEPT !.href = procs[p].ws[1].href.s,
                                          !.ws = procs[p].ws]
    /\ UNCHANGED <<cache, run, walk, bound>>

\* list_exposure(DocUrl("e")), lines 144-150: the exposure document is
\* requested and the loop over its links begins
WalkStart(upstream) ==
    /\ walk.pc # "walking"
    /\ walk' = [pc |-> "walking", upstream |-> upstream,
                stack |-> <<[doc |-> "e", k |-> 1]>>,
                fetched |-> <<DocUrl("e")>>, err |-> ""]
    /\ pre' = fs
    /\ last' = Call("walk")
    /\ UNCHANGED <<fs, cache, run, procs, bound>>

\* one step of the innermost call: its loop is over and it returns, or it
\* classifies its next link, which list_link follows by a request and a call
\* of itself for the links of the answer (lines 117-127); the interpreter ends
\* a call chain deeper than RecursionLimit with RecursionError
WalkStep ==
    /\ walk.pc = "walking"
    /\ LET depth == Len(walk.stack)
           top == walk.stack[depth]
           links == walk.upstream[top.doc]
           link == links[top.k]
           href == DictGet(link, "href").s
           returned == SubSeq(walk.stack, 1, depth - 1)
           advanced == [walk.stack EXCEPT ![depth].k = @ + 1]
       IN  walk' =
               IF top.k > Len(links)
               THEN [walk EXCEPT !.stack = returned,
                                 !.pc = IF depth = 1 THEN "done" ELSE "walking"]
               ELSE IF ~follows(DictGet(link, "rel").s, href, "bookmark")
               THEN [walk EXCEPT !.stack = advanced]
               ELSE IF depth >= RecursionLimit
               THEN [walk EXCEPT !.pc = "done", !.err = "RecursionError"]
               ELSE [walk EXCEPT
                         !.stack = Append(advanced,
                                          [doc |-> CHOOSE d \in Docs : DocUrl(d) = href,
                                           k |-> 1]),
                         !.fetched = Append(@, href)]
    /\ pre' = fs
    /\ last' = Call("walk")
    /\ UNCHANGED <<fs, cache, run, procs, bound>>

\* the full store API, with the shortest instance URLs
Next ==
    \/ \E u \in StoreUrls : Open(u)
    \/ \E h \in Hrefs : Get(h)
    \/ List
    \/ \E w \in Workspaces : Upsert(w)
    \/ \E h \in Hrefs, d \in BOOLEAN : Delete(h, d)
    \/ ManualDeleteRepos
    \/ ManualDeleteWorkspacesFile
    \/ \E t \in CorruptTexts : ManualCorruptWorkspacesFile(t)
    \/ \E n \in RepoNames : CloneRepo(n)

Spec == Init /\ [][Next]_vars

\* opening and re-opening the store with every instance URL, over a store that
\* is filled and damaged by hand in between
NextOpen ==
    \/ \E u \in Urls : Open(u)
    \/ \E u \in StoreUrls : OpenInterrupted(u)
    \/ \E w \in OpenWorkspaces : Upsert(w)
    \/ ManualDeleteRepos
    \/ ManualDeleteWorkspacesFile

SpecOpen == Init /\ [][NextOpen]_vars

\* the export of a store that holds records with and without publications
ExportUrl == <<"a">>

NextExport ==
    \/ Open(ExportUrl)
    \/ \E w \in ExportWorkspaces : Upsert(w)
    \/ \E h \in Hrefs : Delete(h, FALSE)
    \/ \E o \in IterationOrders : Export(o)

SpecExport == Init /\ [][NextExport]_vars

\* the selection of workspaces, for every combination of its arguments
NextSelect ==
    \E instance \in SelectInstances, regex \in Regexes, workspace \in SelectWorkspaces,
       all \in BOOLEAN, response \in CollectionResponses :
        Select(instance, regex, workspace, all, response)

SpecSelect == Init /\ [][NextSelect]_vars

\* runs of cache_workspace_information on a store opened for CrawlUrl
NextPopulate ==
    \/ Open(CrawlUrl)
    \/ \E regex \in PopulateRegexes, workspace \in PopulateWorkspaces,
          all \in BOOLEAN, force_refresh \in BOOLEAN,
          response \in PopulateResponses :
           PopulateSelect(regex, workspace, all, force_refresh, response)
    \/ \E kind \in ViewKinds, exposure \in ExposureResponses :
           PopulateStep(kind, exposure)

SpecPopulate == Init /\ [][NextPopulate]_vars

\* the classification of a link, for every link, follow and answer
NextLink ==
    \E instance \in LinkInstances, link \in Links, follow \in {"", "bookmark"},
       response \in LinkResponses :
        ListLink(instance, link, follow, response)

SpecLink == Init /\ [][NextLink]_vars

\* the two commands, run one after the other on one cache folder
NextCommand ==
    \/ \E pmr_instance \in CommandInstances, workspace \in CommandWorkspaces,
          all \in BOOLEAN, force_refresh \in BOOLEAN,
          response \in CommandResponses :
           CmdCacheWorkspaceInformation(pmr_instance, NoText, workspace, all,
                                        force_refresh, response)
    \/ \E kind \in CommandViewKinds : PopulateStep(kind, Absent)
    \/ \E pmr_instance \in CommandInstances, order \in IterationOrders :
           CmdOmicsdiExport(pmr_instance, order)

SpecCommand == Init /\ [][NextCommand]_vars

\* two processes that each upsert one workspace into the open store, their
\* loads and saves in any order
NextRace ==
    \/ Open(ExportUrl)
    \/ \E p \in Procs, w \in RaceWorkspaces : UpsertLoad(p, w)
    \/ \E p \in Procs : UpsertSave(p)

SpecRace == Init /\ [][NextRace]_vars

\* the following of the links of an exposure, for every upstream
NextWalk ==
    \/ \E upstream \in Upstreams : WalkStart(upstream)
    \/ WalkStep

SpecWalk == Init /\ [][NextWalk]_vars

----------------------------------------------------------------------------
(* Properties of opening a store *)

\* a URL without its trailing slashes, stated without rstrip
StripSlashes(u) ==
    LET n == CHOOSE k \in 0..Len(u) :
                 /\ k = 0 \/ u[k] # "/"
                 /\ \A i \in (k + 1)..Len(u) : u[i] = "/"
    IN  SubSeq(u, 1, n)

\* the one line of the marker: its text without surrounding whitespace
MarkerValue(f) == strip(f.instance_file.text)

IsEmptyDir(f) ==
    ~f.other /\ ~f.instance_file.exists /\ ~f.workspaces_file.exists /\ ~f.repos

StoredRecords(f) ==
    IF f.workspaces_file.exists THEN json_loads(f.workspaces_file.text).v ELSE EmptyDict

\* C1: opening an initialised store with an instance URL that differs from the
\* value recorded in its marker fails with InstanceMismatchError, which carries
\* the requested (expected) and the recorded (found) value, and the marker, the
\* mapping file and the repos directory are as they were, whatever the store holds.
C1_MismatchAlwaysFails ==
    (/\ last.op = "open"
     /\ pre.instance_file.exists
     /\ StripSlashes(last.url) # MarkerValue(pre))
    => /\ last.err = "InstanceMismatchError"
       /\ last.expected = StripSlashes(last.url)
       /\ last.found = MarkerValue(pre)
       /\ fs = pre

C1_Witness ==
    /\ last.op = "open"
    /\ last.err = "InstanceMismatchError"
    /\ Len(StoredRecords(pre).m) > 0
    /\ ~pre.repos

\* C2: opening a directory that exists, is not empty and has no instance marker
\* fails with CacheNotInitialisedError and creates nothing in it.
C2_NotInitialisedNeverAdopted ==
    (/\ last.op = "open"
     /\ pre.base
     /\ ~IsEmptyDir(pre)
     /\ ~pre.instance_file.exists)
    => /\ last.err = "CacheNotInitialisedError"
       /\ fs = pre
       /\ ~fs.instance_file.exists /\ ~fs.workspaces_file.exists

C2_Witness ==
    /\ last.op = "open"
    /\ pre.other
    /\ last.err = "CacheNotInitialisedError"

\* C3: once the instance marker is written no operation changes it: it keeps
\* the instance the directory was initialised with.
C3_MarkerNeverChanges ==
    /\ pre.instance_file.exists => fs.instance_file = pre.instance_file
    /\ fs.instance_file.exists =>
          bound.set /\ fs.instance_file.text = bound.instance \o <<"\n">>

C3_Witness ==
    /\ last.op = "open"
    /\ pre.instance_file.exists
    /\ last.err = "InstanceMismatchError"
    /\ Len(StoredRecords(fs).m) > 0

\* C4: opening a path that does not exist and opening an empty directory both
\* succeed and leave the same store: the marker holding the URL without its
\* trailing slashes, an empty mapping and the repos directory.
C4_AbsentAndEmptyInitialised ==
    (last.op = "open" /\ (~pre.base \/ IsEmptyDir(pre)))
    => /\ last.err = ""
       /\ cache = Handle(StripSlashes(last.url))
       /\ fs.base /\ ~fs.other
       /\ fs.instance_file = File(StripSlashes(last.url) \o <<"\n">>)
       /\ fs.workspaces_file.exists
       /\ json_loads(fs.workspaces_file.text) = [ok |-> TRUE, v |-> EmptyDict]
       /\ fs.repos /\ fs.repo_dirs = {}

C4_Witness ==
    /\ last.op = "open"
    /\ pre.base /\ IsEmptyDir(pre)
    /\ last.url # StripSlashes(last.url)
    /\ fs.instance_file.exists

\* C5: opening a store again with the instance URL it was initialised with
\* (with or without trailing slashes) succeeds, keeps the marker and every
\* stored record, and changes nothing on disk but a missing repos directory or
\* a missing mapping file, which it creates.
C5_ReopenIdempotent ==
    (/\ last.op = "open"
     /\ pre.instance_file.exists
     /\ bound.set
     /\ StripSlashes(last.url) = bound.instance)
    => /\ last.err = ""
       /\ fs.instance_file = pre.instance_file
       /\ StoredRecords(fs) = StoredRecords(pre)
       /\ fs = [pre EXCEPT !.repos = TRUE,
                           !.workspaces_file =
                               IF pre.workspaces_file.exists THEN @
                               ELSE File(json_dumps(EmptyDict))]

\* C6: after every successful open the marker, the mapping file and the repos
\* directory exist.
C6_OpenEnsuresLayout ==
    (last.op = "open" /\ last.err = "")
    => fs.instance_file.exists /\ fs.workspaces_file.exists /\ fs.repos

C6_Witness ==
    /\ last.op = "open"
    /\ last.err = ""
    /\ pre.instance_file.exists
    /\ ~pre.repos
    /\ ~pre.workspaces_file.exists

\* C7: the instance check compares the requested URL and the marker value after
\* stripping the trailing slashes of both: the open of an initialised store
\* raises InstanceMismatchError exactly when the two stripped values differ.
C7_ComparedAfterNormalisingBoth ==
    (last.op = "open" /\ pre.instance_file.exists)
    => (last.err = "InstanceMismatchError"
          <=> StripSlashes(last.url) # StripSlashes(MarkerValue(pre)))

\* the directory as an initialisation leaves it that ended after the repos
\* directory was created
Interrupted(f) == f.base /\ f.repos /\ ~f.instance_file.exists

\* C37: an initialisation that ends after its first step, the creation of the
\* repos directory, leaves a directory that is not empty and has neither marker
\* nor mapping file; every open of a directory in that state, with whatever
\* instance URL, fails with CacheNotInitialisedError and leaves it in that state.
C37_InterruptedInitialisationSticks ==
    /\ last.op = "open_interrupted"
       => Interrupted(fs) /\ NonEmpty(fs) /\ ~fs.workspaces_file.exists
    /\ Interrupted(fs)
       => \A u \in Urls :
              \E out \in {__init__(fs, u)} :
                  out.err = "CacheNotInitialisedError" /\ out.fs = fs
    /\ (last.op = "open" /\ Interrupted(pre))
       => last.err = "CacheNotInitialisedError" /\ fs = pre

C37_Witness ==
    /\ last.op = "open"
    /\ last.err = "CacheNotInitialisedError"
    /\ Interrupted(pre)
    /\ ~pre.other
    /\ ~pre.workspaces_file.exists
    /\ ~cache.open

----------------------------------------------------------------------------
(* Properties of the workspace API *)

\* what list() gives in a store state: its length, or -1 when it raises
ListLength(f) ==
    LET r == list_workspaces(f)
    IN  IF r.err = "" THEN Len(r.ret) ELSE -1

\* C8: upsert(w) followed by get(w.href) returns a record equal to w in every
\* field: writing the mapping file and reading it back is a round trip.
C8_UpsertGetRoundTrip ==
    (last.op = "upsert" /\ last.err = "")
    => get_workspace(fs, last.ws[1].href.s) = [err |-> "", ret |-> <<last.ws[1]>>]

C8_Witness ==
    /\ last.op = "upsert"
    /\ last.ws[1].latest_exposure # EmptyDict
    /\ Len(StoredRecords(pre).m) = 2
    /\ last.err = ""
    /\ get_workspace(pre, last.href).ret # last.ws

\* C9: upserting a record whose href is cached replaces the stored record and
\* adds no entry, so list() has the same length before and after; upserting a
\* record identical to the stored one leaves the mapping file as it was.
C9_UpsertOverwritesByHref ==
    (last.op = "upsert" /\ DictHas(StoredRecords(pre), last.href))
    => /\ get_workspace(fs, last.href).ret = last.ws
       /\ DictKeys(StoredRecords(fs)) = DictKeys(StoredRecords(pre))
       /\ ListLength(pre) >= 0
       /\ ListLength(fs) = ListLength(pre)
       /\ get_workspace(pre, last.href).ret = last.ws
             => fs.workspaces_file = pre.workspaces_file

\* C10: list() returns every cached workspace exactly once, ordered by the
\* lower-cased display name, whatever the store holds.
C10_ListSortedByName ==
    last.op = "list"
    => LET values == DictValues(StoredRecords(fs))
       IN  /\ last.err = ""
           /\ Len(last.ret) = Len(values)
           /\ \A i \in 1..Len(values) :
                  \E j \in 1..Len(last.ret) : last.ret[j] = from_dict(values[i])
           /\ \A i, j \in 1..Len(last.ret) :
                  i < j => ~StrLess(lower(last.ret[j].title.s),
                                    lower(last.ret[i].title.s))

\* C11: delete(href) without repository removal returns true exactly when href
\* is cached, leaves get(href) absent, makes a delete that follows return
\* false, and changes nothing under the repos directory; an href that is not
\* cached becomes cached again only by an upsert of that href.
C11_DeleteKeepsRepos ==
    /\ (last.op = "delete" /\ ~last.delete_repo /\ last.err = "")
       => /\ last.flag = DictHas(StoredRecords(pre), last.href)
          /\ last.flag => get_workspace(fs, last.href) = [err |-> "", ret |-> <<>>]
          /\ delete_workspace(fs, last.href, FALSE) =
                 [fs |-> fs, err |-> "", ret |-> FALSE]
          /\ fs.repos = pre.repos /\ fs.repo_dirs = pre.repo_dirs
          /\ ~last.flag => fs = pre
    /\ \A h \in Hrefs :
           (~DictHas(StoredRecords(pre), h) /\ DictHas(StoredRecords(fs), h))
           => (last.op = "upsert" /\ last.href = h)

C11_Witness ==
    /\ last.op = "delete"
    /\ ~last.delete_repo
    /\ last.flag
    /\ last.href \in pre.repo_dirs
    /\ Len(StoredRecords(pre).m) = 2

\* C12: delete(href) with repository removal on a cached href returns true and
\* leaves no clone under the id of the deleted workspace (is_repo_cloned(id) is
\* false); on an href that is not cached it returns false and removes nothing.
C12_DeleteRemovesRepoOfWorkspace ==
    (last.op = "delete" /\ last.delete_repo /\ last.err = "")
    => IF DictHas(StoredRecords(pre), last.href)
       THEN /\ last.flag
            /\ ~is_repo_cloned(fs, get_workspace(pre, last.href).ret[1].id.s)
       ELSE ~last.flag /\ fs = pre

\* C13: while the mapping file is missing or holds no parsable JSON text, get
\* returns absent, list returns the empty sequence and delete returns false,
\* none of them raising and none of them changing the store.
C13_UnreadableMappingIsEmpty ==
    (/\ last.op \in {"get", "list", "delete"}
     /\ \/ ~pre.workspaces_file.exists
        \/ ~json_loads(pre.workspaces_file.text).ok)
    => /\ last.err = ""
       /\ last.ret = <<>>
       /\ ~last.flag
       /\ fs = pre

\* the record stored under href h, <<>> when the mapping has none
RecordAt(f, h) ==
    IF DictHas(StoredRecords(f), h) THEN <<DictGet(StoredRecords(f), h)>> ELSE <<>>

\* C35: two processes that upsert workspaces with different hrefs, each by its
\* own load and save of the whole mapping with no lock: when the load of one
\* never falls between the load and the save of the other, both records are in
\* the store once both are done.  (With the loads and saves interleaved the
\* final store can lack one of them: C35_LostUpdate.)
C35_SerialUpsertsKeepBoth ==
    (/\ \A p \in Procs : procs[p].pc = "done" /\ procs[p].err = ""
     /\ procs[1].ws[1].href # procs[2].ws[1].href
     /\ \A p \in Procs : ~procs[p].overlapped)
    => \A p \in Procs :
           /\ RecordAt(fs, procs[p].ws[1].href.s) = <<to_dict(procs[p].ws[1])>>
           /\ get_workspace(fs, procs[p].ws[1].href.s).ret = procs[p].ws

C35_LostUpdate ==
    /\ \A p \in Procs : procs[p].pc = "done" /\ procs[p].err = ""
    /\ procs[1].ws[1].href # procs[2].ws[1].href
    /\ \E p \in Procs : procs[p].overlapped
    /\ \E p \in Procs : RecordAt(fs, procs[p].ws[1].href.s) = <<>>
    /\ Len(StoredRecords(fs).m) = 1

----------------------------------------------------------------------------
(* Properties of the crawl *)

\* p is a prefix of s, stated position by position
IsPrefix(p, s) == Len(p) <= Len(s) /\ \A i \in 1..Len(p) : s[i] = p[i]

\* the hrefs a collection document links to, in its order
LinkedHrefs(doc) ==
    LET links == DictGet(DictGet(doc, "collection"), "links").m
    IN  [i \in 1..Len(links) |-> DictGet(links[i], "href").s]

\* the URL of the workspace collection of an instance
CollectionUrl(instance) == instance \o <<"/", "workspace">>

\* C14: a turn of the populate loop for a selected URL that the store has a
\* record for, with force_refresh false, requests nothing from the network and
\* leaves the store, and so the record and its cached_at, as they were.
C14_CacheHitSkipped ==
    (/\ last.op = "populate_step"
     /\ get_workspace(pre, last.url).ret # <<>>
     /\ ~last.force_refresh)
    => /\ last.err = ""
       /\ last.fetched = <<>>
       /\ fs = pre
       /\ get_workspace(fs, last.url) = get_workspace(pre, last.url)

C14_Witness ==
    /\ last.op = "populate_step"
    /\ ~last.force_refresh
    /\ run.count = 2
    /\ get_workspace(pre, last.url).ret # <<>>
    /\ get_workspace(fs, last.url).ret[1].cached_at = PyStr("t1")

\* C15: a run of populate whose selection is empty returns -1 having requested
\* no workspace document and having left the store as it was; a run whose
\* selection is not empty returns 0.
C15_StatusBySelection ==
    /\ (last.op = "populate" /\ last.err = "" /\ last.ret = <<>>)
       => /\ run.pc = "done"
          /\ run.ret = <<-1>>
          /\ fs = pre
          /\ \A i \in 1..Len(last.fetched) : last.fetched[i] = CollectionUrl(last.instance)
    /\ (run.pc = "done" /\ Len(run.workspaces) > 0) => run.ret = <<0>>

\* C16: a request that comes back absent raises nothing in the selection and
\* in the assembly of a record, and the run goes on: it is still in its loop
\* or has returned a status.
C16_FailedFetchNotFatal ==
    (last.op \in {"populate", "populate_step"} /\ last.absent)
    => /\ last.err = ""
       /\ run.err = ""
       /\ run.pc = "loop" \/ run.ret # <<>>

\* C17: with an explicit workspace URL the selection requests nothing from the
\* network, whatever regex and all are, and returns the list of that one URL
\* when the instance URL is a prefix of it and the empty list otherwise.
C17_ExplicitWorkspace ==
    (last.op = "select" /\ last.url # NoText)
    => /\ last.err = ""
       /\ last.fetched = <<>>
       /\ last.ret = IF IsPrefix(last.instance, last.url) THEN <<last.url>> ELSE <<>>

C17_Witness ==
    /\ last.op = "select"
    /\ last.url # NoText
    /\ last.all
    /\ last.regex # NoText
    /\ ~re_match(last.regex, last.url)
    /\ last.ret = <<last.url>>

\* C18: with no explicit workspace and with all or a regex given, the selection
\* requests the workspace collection once and, from the document it gets,
\* returns in the document's order exactly the linked hrefs that the regex
\* matches from their start, and every linked href when there is no regex.
C18_CollectionFiltered ==
    (/\ last.op = "select"
     /\ last.url = NoText
     /\ last.all \/ last.regex # NoText
     /\ last.response.ok)
    => /\ last.err = ""
       /\ last.fetched = <<CollectionUrl(last.instance)>>
       /\ last.ret = SelectSeq(LinkedHrefs(last.response.doc),
                               LAMBDA h : \/ last.regex = NoText
                                          \/ /\ Len(last.regex) <= Len(h)
                                             /\ \A i \in 1..Len(last.regex) :
                                                    last.regex[i] \in {".", h[i]})

C18_Witness ==
    /\ last.op = "select"
    /\ last.url = NoText
    /\ last.regex = <<"/", "w">>
    /\ last.response.ok
    /\ Len(LinkedHrefs(last.response.doc)) = 2
    /\ last.ret = <<>>

\* C28: the URLs a run of populate has taken up are the first URLs of its
\* selection, in its order, and all of them once it has returned 0; a turn of
\* the loop requests the URL it takes up when that URL is not cached or
\* force_refresh is set, and unless the turn raises the record is in the store
\* when the turn ends, before the next URL is taken up; the records cached
\* before stay as they were, also when the turn raises and ends the run.
C28_OneAtATimeInOrder ==
    /\ Len(run.handled) <= Len(run.workspaces)
    /\ run.handled = SubSeq(run.workspaces, 1, Len(run.handled))
    /\ run.pc = "loop" => Len(run.handled) = run.i - 1
    /\ run.ret = <<0>> => run.handled = run.workspaces
    /\ last.op = "populate_step"
       => LET w == run.handled[Len(run.handled)]
              needed == get_workspace(pre, w).ret = <<>> \/ last.force_refresh
              before == DictKeys(StoredRecords(pre))
          IN  /\ last.url = w
              /\ needed => /\ last.fetched # <<>>
                           /\ last.fetched[1] = w \o <<"/", "workspace_view">>
              /\ (needed /\ last.err = "")
                 => /\ last.ws # <<>>
                    /\ get_workspace(fs, last.ws[1].href.s).ret = last.ws
              /\ last.err # "" => fs = pre /\ run.pc = "done" /\ run.ret = <<>>
              /\ \A k \in 1..Len(before) :
                     (last.ws = <<>> \/ before[k] # last.ws[1].href.s)
                     => get_workspace(fs, before[k]) = get_workspace(pre, before[k])

C28_Witness ==
    /\ last.op = "populate_step"
    /\ last.err # ""
    /\ run.count = 1
    /\ run.i = 2
    /\ get_workspace(fs, run.workspaces[1]).ret # <<>>
    /\ get_workspace(fs, run.workspaces[2]).ret = <<>>

\* C29: when a run of populate has returned 0, the store has a record under
\* every URL of its selection.
C29_SuccessCachesEverySelected ==
    (run.pc = "done" /\ run.ret = <<0>>)
    => \A i \in 1..Len(run.workspaces) :
           get_workspace(fs, run.workspaces[i]).ret # <<>>

\* C30: a link classified with follow set is followed, that is requested first
\* of all and, when the request is answered, described with the data fields of
\* the first item and with the classified links of the answer, exactly when its
\* relationship is follow and its href is on the host of the instance crawled.
C30_FollowOnInstanceHost ==
    (last.op = "list_link" /\ last.follow # "")
    => LET link == last.ws[1]
           href == DictGet(link, "href").s
           desc == last.ret[1]
           answer == DictGet(last.response.doc, "collection")
           followed ==
               /\ last.fetched # <<>>
               /\ last.fetched[1] = href
               /\ last.err = ""
                  => /\ DictHas(desc, "title")
                     /\ DictHas(answer, "links") <=> DictHas(desc, "links")
       IN  (/\ DictGet(link, "rel").s = last.follow
            /\ IsPrefix(last.instance \o <<"/">>, href))
           <=> (DictGet(link, "rel").s = last.follow /\ followed)

\* C31: while the record of a workspace is assembled, every GET request goes
\* to a URL on the host of the instance that the store is bound to.
C31_RequestsOnInstanceHost ==
    last.op = "populate_step"
    => \A i \in 1..Len(last.fetched) :
           IsPrefix(cache.instance \o <<"/">>, last.fetched[i])

\* the value of the data field called name of an item, <<>> when it has none
DataValue(item, name) ==
    LET data == DictGet(item, "data").m
        at == {i \in 1..Len(data) : DictGet(data[i], "name").s = name}
    IN  IF at = {} THEN <<>>
        ELSE <<DictGet(data[CHOOSE i \in at : \A j \in at : j <= i], "value")>>

\* the links of an item with the given prompt, in the item's order
LinksPrompted(item, prompt) ==
    IF ~DictHas(item, "links") THEN <<>>
    ELSE SelectSeq(DictGet(item, "links").m,
                   LAMBDA l : DictGet(l, "prompt").s = prompt)

\* C33: a turn of the populate loop that fetches the workspace, with every
\* request answered, builds the record from the first item of the
\* workspace_view document: its href and its id, title and owner fields; the
\* description field, or the empty text when the item has none; and as
\* latest_exposure the resolved exposure of the 'Latest Exposure' link (its
\* href, the data fields of the exposure document and one descriptor for each
\* of its links), or the empty mapping when the item has no such link.  A link
\* with another prompt changes nothing and does not abort the turn.
C33_RecordFromFirstItem ==
    (last.op = "populate_step" /\ last.fetched # <<>> /\ ~last.absent)
    => LET item == FirstItem(last.response.doc)
           latest == LinksPrompted(item, "Latest Exposure")
           upstream == DictGet(last.exposure.doc, "collection")
       IN  /\ last.err = ""
           /\ Len(last.ws) = 1
           /\ LET w == last.ws[1]
              IN  /\ w.href = DictGet(item, "href")
                  /\ <<w.id>> = DataValue(item, "id")
                  /\ <<w.title>> = DataValue(item, "title")
                  /\ <<w.owner>> = DataValue(item, "owner")
                  /\ <<w.description>> =
                         IF DataValue(item, "description") = <<>> THEN <<PyStr("")>>
                         ELSE DataValue(item, "description")
                  /\ latest = <<>> => w.latest_exposure = EmptyDict
                  /\ latest # <<>> =>
                         LET e == w.latest_exposure
                             listed == DictGet(upstream, "links").m
                             described == DictGet(e, "links").m
                         IN  /\ \A k \in {"href", "title", "links"} : DictHas(e, k)
                             /\ DictGet(e, "href") = DictGet(latest[Len(latest)], "href")
                             /\ <<DictGet(e, "title")>> =
                                    DataValue(FirstItem(last.exposure.doc), "title")
                             /\ Len(described) = Len(listed)
                             /\ \A k \in 1..Len(listed) :
                                    /\ DictGet(described[k], "href") =
                                           DictGet(listed[k], "href")
                                    /\ DictGet(described[k], "prompt") =
                                           DictGet(listed[k], "prompt")
                                    /\ DictGet(described[k], "relationship") =
                                           DictGet(listed[k], "rel")

C33_Witness ==
    /\ last.op = "populate_step"
    /\ last.err = ""
    /\ Len(last.ws) = 1
    /\ last.ws[1].description = PyStr("d")
    /\ LinksPrompted(FirstItem(last.response.doc), "Something Else") # <<>>
    /\ DictHas(last.ws[1].latest_exposure, "links")
    /\ get_workspace(fs, last.url).ret = last.ws

\* C32: the following of the links of an exposure ends in a normal return:
\* the chain of unreturned calls never gets longer than the number of upstream
\* documents, and the following never ends in RecursionError, also when a
\* bookmark on the followed host refers back to a document already requested.
C32_FollowingEnds ==
    /\ Len(walk.stack) <= Cardinality(Docs)
    /\ walk.err = ""

----------------------------------------------------------------------------
(* Properties of the export *)

\* the cached workspaces, in the order of the mapping file
Cached(f) ==
    LET values == DictValues(StoredRecords(f))
    IN  [i \in 1..Len(values) |-> from_dict(values[i])]

\* the publications string of a workspace, for every iteration order
PublicationsOf(w) == {entry_of(w, o).entry.publications : o \in IterationOrders}

HasPublications(w) == "" \notin PublicationsOf(w)

\* C19: the export of a store that holds two workspaces with one id, one with
\* publications P and one without, succeeds and has exactly one entry, under
\* that id and with publications P, in whichever order the two are cached.
C19_PublicationsWin ==
    LET ws == Cached(fs)
    IN  (/\ last.op = "export"
         /\ Len(ws) = 2
         /\ ws[1].id = ws[2].id
         /\ HasPublications(ws[1]) # HasPublications(ws[2]))
        => /\ last.err = ""
           /\ last.doc.entry_count = 1
           /\ Len(last.doc.entries) = 1
           /\ last.doc.entries[1].entry_id = ws[1].id.s
           /\ \E k \in 1..2 :
                  /\ HasPublications(ws[k])
                  /\ last.doc.entries[1].entry_publication \in PublicationsOf(ws[k])

\* C20: the export of a store that holds two workspaces with one id and
\* differing non-empty publications succeeds and has two entries, the first
\* under the id and the second under id.1, one for each of the two workspaces.
C20_ConflictKeepsBoth ==
    LET ws == Cached(fs)
    IN  (/\ last.op = "export"
         /\ Len(ws) = 2
         /\ ws[1].id = ws[2].id
         /\ HasPublications(ws[1]) /\ HasPublications(ws[2])
         /\ PublicationsOf(ws[1]) \cap PublicationsOf(ws[2]) = {})
        => /\ last.err = ""
           /\ last.doc.entry_count = 2
           /\ Len(last.doc.entries) = 2
           /\ last.doc.entries[1].entry_id = ws[1].id.s
           /\ last.doc.entries[2].entry_id = ws[1].id.s \o ".1"
           /\ \A k \in 1..2 : \E j \in 1..2 :
                  /\ last.doc.entries[j].entry_url = ws[k].href.s
                  /\ last.doc.entries[j].entry_publication \in PublicationsOf(ws[k])

\* every value of a citation_id field, at any depth below v
RECURSIVE AllCitations(_)
AllCitations(v) ==
    IF v.t = "str" THEN {}
    ELSE UNION { LET key == IF v.t = "dict" THEN v.m[i][1] ELSE ""
                     value == IF v.t = "dict" THEN v.m[i][2] ELSE v.m[i]
                 IN  (IF key = "citation_id" /\ value.t = "str" THEN {value.s} ELSE {})
                     \cup AllCitations(value) : i \in 1..Len(v.m) }

\* the links of the latest exposure of a workspace, as one value
LinksOf(w) ==
    IF DictHas(w.latest_exposure, "links") THEN DictGet(w.latest_exposure, "links")
    ELSE PyList(<<>>)

\* the lower-cased ids of a set of citation ids, in every order
Orderings(ids) ==
    {SelectSeq(o, LAMBDA c : c \in {lower(x) : x \in ids}) : o \in HashOrders}

\* a lower-cased id without the pubmed prefix
Stripped(c) == IF \E n \in PubmedIds : c = PubmedPrefix \o n
               THEN CHOOSE n \in PubmedIds : c = PubmedPrefix \o n
               ELSE c

\* the text with every "&" written as "&amp;" and nothing else changed
AmpEscaped(text) ==
    IF text = "a&b" THEN "a&amp;b"
    ELSE IF text = "x&y<&" THEN "x&amp;y<&amp;"
    ELSE text

\* C21: the export of a store that holds two workspaces with one id, neither of
\* them with publications, succeeds and has two entries, the first under the id
\* and the second under id.1, one for each of the two workspaces.
C21_NeitherHasPublicationsKeepsBoth ==
    LET ws == Cached(fs)
    IN  (/\ last.op = "export"
         /\ Len(ws) = 2
         /\ ws[1].id = ws[2].id
         /\ ~HasPublications(ws[1]) /\ ~HasPublications(ws[2]))
        => /\ last.err = ""
           /\ last.doc.entry_count = 2
           /\ Len(last.doc.entries) = 2
           /\ last.doc.entries[1].entry_id = ws[1].id.s
           /\ last.doc.entries[2].entry_id = ws[1].id.s \o ".1"
           /\ \A k \in 1..2 : \E j \in 1..2 :
                  last.doc.entries[j].entry_url = ws[k].href.s

\* C22: the export of a store that holds two workspaces with one id and the
\* same non-empty publications succeeds and has exactly one entry, under that
\* id, and it is the entry of the workspace that comes first.
C22_SamePublicationsDropsLater ==
    LET ws == Cached(fs)
    IN  (/\ last.op = "export"
         /\ Len(ws) = 2
         /\ ws[1].id = ws[2].id
         /\ HasPublications(ws[1])
         /\ PublicationsOf(ws[1]) = PublicationsOf(ws[2]))
        => /\ last.err = ""
           /\ last.doc.entry_count = 1
           /\ Len(last.doc.entries) = 1
           /\ last.doc.entries[1].entry_id = ws[1].id.s
           /\ last.doc.entries[1].entry_url = ws[1].href.s
           /\ last.doc.entries[1].entry_publication \in PublicationsOf(ws[1])

\* C23: the export of a store that holds one workspace succeeds, and the
\* publications of its entry are the identifiers of all citation_id values found
\* at any depth below latest_exposure.links, each once, in some order.
C23_EveryCitationAtAnyDepth ==
    LET ws == Cached(fs)
    IN  (last.op = "export" /\ Len(ws) = 1)
        => /\ last.err = ""
           /\ Len(last.doc.entries) = 1
           /\ \E q \in Orderings(AllCitations(LinksOf(ws[1]))) :
                  last.doc.entries[1].entry_publication =
                      join([i \in 1..Len(q) |-> Stripped(q[i])])

\* C24: the export of a store that holds one workspace whose citation ids are
\* fields of the links themselves succeeds, and the publications of its entry
\* hold, once for all ids that differ in letter case only, the id without the
\* pubmed prefix when it has that prefix and the id as it is cached otherwise.
C24_CitationNormalization ==
    LET ws == Cached(fs)
        ids == AllCitations(LinksOf(ws[1]))
    IN  (/\ last.op = "export"
         /\ Len(ws) = 1
         /\ \A c \in ids : \E i \in 1..Len(LinksOf(ws[1]).m) :
                DictGetDefault(LinksOf(ws[1]).m[i], "citation_id", PyStr("")).s = c)
        => /\ last.err = ""
           /\ Len(last.doc.entries) = 1
           /\ \E q \in Orderings(ids) :
              \E p \in [1..Len(q) -> PubmedIds \cup ids] :
                  /\ \A i \in 1..Len(q) :
                         IF Stripped(q[i]) # q[i] THEN p[i] = Stripped(q[i])
                         ELSE p[i] \in ids /\ lower(p[i]) = q[i]
                  /\ last.doc.entries[1].entry_publication = join(p)

\* C25: the export of a store that holds one workspace with a title and a
\* description succeeds, and its entry shows the title and the description with
\* every "&" written as "&amp;" and no other character changed.
C25_OnlyAmpersandEscaped ==
    LET ws == Cached(fs)
    IN  (/\ last.op = "export"
         /\ Len(ws) = 1
         /\ ws[1].title.s # "" /\ ws[1].description.s # "")
        => /\ last.err = ""
           /\ Len(last.doc.entries) = 1
           /\ last.doc.entries[1].entry_name = AmpEscaped(ws[1].title.s)
           /\ last.doc.entries[1].entry_description = AmpEscaped(ws[1].description.s)

CitedSet(w) ==
    LET citations == IF Truthy(w.latest_exposure) /\ DictHas(w.latest_exposure, "links")
                     THEN citations_of(DictGet(w.latest_exposure, "links"), 1)
                     ELSE <<>>
    IN  {lower(citations[i]) : i \in 1..Len(citations)}

\* C34: two cached workspaces with one id and the same non-empty set of
\* publication identifiers get the same publications, however each of the two
\* sets is iterated and joined, and the export of a store that holds the two
\* succeeds and has exactly one entry, under that id.
C34_PublicationsCompareAsSets ==
    LET ws == Cached(fs)
    IN  (/\ Len(ws) = 2
         /\ ws[1].id = ws[2].id
         /\ CitedSet(ws[1]) # {}
         /\ CitedSet(ws[1]) = CitedSet(ws[2]))
        => /\ \A o \in IterationOrders :
                  entry_of(ws[1], o).entry.publications
                      = entry_of(ws[2], o).entry.publications
           /\ last.op = "export"
              => /\ last.err = ""
                 /\ last.doc.entry_count = 1
                 /\ Len(last.doc.entries) = 1
                 /\ last.doc.entries[1].entry_id = ws[1].id.s

\* the entries are rendered from the reconciliation mapping, each under its key
RenderedUnderKeys(doc, entry_descriptions) ==
    /\ Len(doc.entries) = Len(entry_descriptions.m)
    /\ \A i \in 1..Len(entry_descriptions.m) :
           /\ entry_descriptions.m[i][2].id = entry_descriptions.m[i][1]
           /\ doc.entries[i] = render(entry_descriptions.m[i][2])

DistinctIds(doc) ==
    \A i, j \in 1..Len(doc.entries) :
        i # j => doc.entries[i].entry_id # doc.entries[j].entry_id

\* C38: the export of a store that holds cached workspaces gives a document
\* with at least one entry, whose entries have pairwise distinct ids and are
\* the entries of the reconciliation mapping, each with the id it is stored
\* under, for some iteration order of the citation sets.
C38_ExportedIdsDistinct ==
    (last.op = "export" /\ Cached(fs) # <<>>)
    => /\ last.err = ""
       /\ Len(last.doc.entries) > 0
       /\ DistinctIds(last.doc)
       /\ \E o \in IterationOrders :
              RenderedUnderKeys(last.doc,
                                entries_of(Cached(fs), o, 1, EmptyDict).entry_descriptions)

----------------------------------------------------------------------------
(* Properties of the commands *)

\* C27: a step of either command returns status 1 exactly when the open of
\* the store raises InstanceMismatchError or CacheNotInitialisedError, and then
\* the step leaves the disk and the run of the population as they were, has
\* requested nothing and exported nothing, and no error leaves the command.
C27_OpenFailureIsStatusOne ==
    [][last'.op \in {"cmd_cache", "cmd_export"}
       => LET failed == __init__(fs, last'.instance).err \in
                            {"InstanceMismatchError", "CacheNotInitialisedError"}
          IN  /\ failed <=> last'.status = <<1>>
              /\ failed => /\ fs' = fs
                           /\ run' = run
                           /\ last'.err = ""
                           /\ last'.fetched = <<>>
                           /\ last'.ret = <<>>
                           /\ last'.doc = [entry_count |-> 0, entries |-> <<>>]]_vars

C27_Witness ==
    /\ last.op = "cmd_cache"
    /\ last.open_err = "InstanceMismatchError"
    /\ last.status = <<1>>
    /\ last.all
    /\ last.response.ok
    /\ Cached(fs) # <<>>

====
